---------------------------- MODULE Spec2Model ----------------------------
(***************************************************************************)
(* Rarity classification engine of ord-kafka:                              *)
(*   src/src/subcommand/server/rpc.rs   getSatRanges, get_block_rarities,  *)
(*                                      the palindrome and alpha/omega     *)
(*                                      enumerators                        *)
(*   src/src/block_rarity.rs            constants and the PIZZA table,     *)
(*                                      BlockRarity as text, is_palindrome *)
(*                                                                         *)
(* Number representation.  TLC computes with 32-bit integers, the program  *)
(* with u64 sat numbers up to 2.1 * 10^15.  Every literal of the source    *)
(* (COIN_VALUE, the block subsidy, FIRST_TRANSACTION_SAT_RANGE, every      *)
(* bound of PIZZA_RANGES) is a multiple of 10^6, so the model counts sats  *)
(* in units of SatScale = 10^6: COIN_VALUE is 100, one block issues 5000,  *)
(* and a machine word has 30 bits instead of 64.  The algorithms are the   *)
(* source's, digit for digit; only the literals are divided by SatScale.   *)
(***************************************************************************)
EXTENDS Integers, Sequences, FiniteSets, TLC

VARIABLES
  overflow_checks,   \* build profile: TRUE = overflow panics (debug), FALSE = wraps (release)
  \* --- get_palindromes_from_sat_range called on its own
  pal_lo, pal_hi, pal_out, pal_done,
  \* --- get_alpha_from_sat_range / get_omega_from_sat_range called on their own
  ao_start, ao_end, ao_alpha, ao_omega, ao_done,
  \* --- one call of get_block_rarities
  q_start, q_end, gbr_pc, kind_idx, block_rarities, pal_calls,
  \* --- one getSatRanges request
  has_sat_index, params_ok, utxos, pc, pos, res, response, lookups,
  lookup_failure,    \* the message of the collaborator error met, <<>> when none
  \* --- BlockRarity written with Display and read back with FromStr
  tok_kind, tok_text, tok_origin, tok_parsed,
  \* --- is_palindrome called on its own
  isp_n, isp_out, isp_done,
  \* --- threads meeting at the lazy static PIZZA_RANGE_MAP
  once_state, cell_set, cell, builds, th_pc, th_left, th_i, th_map, th_seen,
  \* --- one sat classified point-wise (block_rarity.rs) and as the range (n, n + 1)
  sat_n, sat_pizza, sat_rarities, sat_chunks, sat_done

vars == <<overflow_checks,
          pal_lo, pal_hi, pal_out, pal_done,
          ao_start, ao_end, ao_alpha, ao_omega, ao_done,
          q_start, q_end, gbr_pc, kind_idx, block_rarities, pal_calls,
          has_sat_index, params_ok, utxos, pc, pos, res, response, lookups,
          lookup_failure,
          tok_kind, tok_text, tok_origin, tok_parsed,
          isp_n, isp_out, isp_done,
          once_state, cell_set, cell, builds, th_pc, th_left, th_i, th_map, th_seen,
          sat_n, sat_pizza, sat_rarities, sat_chunks, sat_done>>

palVars == <<pal_lo, pal_hi, pal_out, pal_done>>
aoVars  == <<ao_start, ao_end, ao_alpha, ao_omega, ao_done>>
gbrVars == <<q_start, q_end, gbr_pc, kind_idx, block_rarities, pal_calls>>
rpcVars == <<has_sat_index, params_ok, utxos, pc, pos, res, response, lookups,
             lookup_failure>>
tokVars == <<tok_kind, tok_text, tok_origin, tok_parsed>>
ispVars == <<isp_n, isp_out, isp_done>>
lazyVars == <<once_state, cell_set, cell, builds, th_pc, th_left, th_i, th_map, th_seen>>
satVars == <<sat_n, sat_pizza, sat_rarities, sat_chunks, sat_done>>

\* the variables of the engine (rpc.rs) and of the library (block_rarity.rs)
engineVars == <<overflow_checks, palVars, aoVars, gbrVars, rpcVars>>
libVars == <<tokVars, ispVars, lazyVars, satVars>>

---------------------------------------------------------------------------
(* Scale and word width *)

SatScale == 10^6

\* bitcoin::constants::COIN_VALUE = 100_000_000 sats
COIN_VALUE == (10^8) \div SatScale

\* u64::MAX + 1, on the model's 30-bit word
U64_MODULUS == 2^30

\* sats issued per block in the first epoch: 50 * COIN_VALUE
SUBSIDY == 50 * COIN_VALUE

---------------------------------------------------------------------------
(* Decimal strings: a string is the sequence of its digits *)

RECURSIVE to_string(_)
to_string(n) == IF n < 10 THEN <<n>> ELSE Append(to_string(n \div 10), n % 10)

\* parse::<u64>().unwrap(): it panics on a string above u64::MAX, which a
\* mirrored 20-digit prefix can be; every string parsed here is a sat number
\* or the mirror image of the first half of one, far below the word's end
RECURSIVE parse_u64(_)
parse_u64(s) ==
  IF Len(s) = 0 THEN 0
  ELSE 10 * parse_u64(SubSeq(s, 1, Len(s) - 1)) + s[Len(s)]

rev(s) == [i \in 1..Len(s) |-> s[Len(s) + 1 - i]]

repeat(d, k) == [i \in 1..k |-> d]

\* s[from..] of the source (from is 0-based there)
skip(s, from) == SubSeq(s, from + 1, Len(s))

---------------------------------------------------------------------------
(* block_rarity.rs: the palindrome predicate *)

\* is_palindrome that stops after the comparison of the first and the last digit
is_palindrome_ends_only(n) ==
  to_string(n)[1] = to_string(n)[Len(to_string(n))]

\* is_palindrome: the first/last comparison is an early exit before the
\* full reversal
is_palindrome(n) ==
  LET s == to_string(n)
  IN  IF s[1] # s[Len(s)] THEN FALSE ELSE s = rev(s)

---------------------------------------------------------------------------
(* rpc.rs: the palindrome enumerator *)

\* get_palindrome with the middle digit mirrored too
get_palindrome_keep_middle(sig_digits, middle_digit_exists) ==
  parse_u64(sig_digits \o rev(sig_digits))

\* the closure get_palindrome: the significant digits followed by their
\* mirror image, without the mirrored middle digit when the length is odd
get_palindrome(sig_digits, middle_digit_exists) ==
  parse_u64(sig_digits \o skip(rev(sig_digits), IF middle_digit_exists THEN 1 ELSE 0))

\* get_palindromes_from_equal_length_range pushing the last candidate even
\* when both bounds have the same significant digits
get_palindromes_from_equal_length_range_last_unguarded(start_string, end_string) ==
  LET middle_digit_exists == (Len(start_string) % 2 = 1)
      lo == parse_u64(SubSeq(start_string, 1, (Len(start_string) + 1) \div 2))
      hi == parse_u64(SubSeq(end_string, 1, (Len(start_string) + 1) \div 2))
      candidate(k) == get_palindrome(to_string(k), middle_digit_exists)
      pushed(p) == IF parse_u64(start_string) <= p /\ p <= parse_u64(end_string)
                   THEN <<p>> ELSE <<>>
  IN  pushed(candidate(lo))
      \o [i \in 1..(hi - lo - 1) |-> candidate(lo + i)]
      \o pushed(candidate(hi))

get_palindromes_from_equal_length_range(start_string, end_string) ==
  LET sat_length == Len(start_string)
      palindrome_sig_digits == (sat_length + 1) \div 2
      middle_digit_exists == (sat_length % 2 = 1)
      start_sig_digits == SubSeq(start_string, 1, palindrome_sig_digits)
      start_sig_digits_number == parse_u64(start_sig_digits)
      end_sig_digits == SubSeq(end_string, 1, palindrome_sig_digits)
      end_sig_digits_number == parse_u64(end_sig_digits)
      start_sat == parse_u64(start_string)
      end_sat == parse_u64(end_string)
      potential_first_palindrome == get_palindrome(start_sig_digits, middle_digit_exists)
      first == IF start_sat <= potential_first_palindrome
                  /\ potential_first_palindrome <= end_sat
               THEN <<potential_first_palindrome>> ELSE <<>>
      middle == IF start_sig_digits_number + 1 < end_sig_digits_number
                THEN [i \in 1..(end_sig_digits_number - start_sig_digits_number - 1) |->
                        get_palindrome(to_string(start_sig_digits_number + i),
                                       middle_digit_exists)]
                ELSE <<>>
      potential_last_palindrome == get_palindrome(end_sig_digits, middle_digit_exists)
      last == IF start_sig_digits # end_sig_digits
                 /\ start_sat <= potential_last_palindrome
                 /\ potential_last_palindrome <= end_sat
              THEN <<potential_last_palindrome>> ELSE <<>>
  IN  first \o middle \o last

\* the list equal_length_ranges: one pair of strings per digit length
equal_length_ranges(start, end) ==
  LET sat_range_start_string == to_string(start)
      sat_range_end_string == to_string(end)
      sat_range_start_length == Len(sat_range_start_string)
      sat_range_end_length == Len(sat_range_end_string)
  IN  IF sat_range_start_length = sat_range_end_length
      THEN << <<sat_range_start_string, sat_range_end_string>> >>
      ELSE << <<sat_range_start_string, repeat(9, sat_range_start_length)>> >>
           \o [k \in 1..(sat_range_end_length - sat_range_start_length - 1) |->
                 LET i == sat_range_start_length + k
                 IN  << <<1>> \o repeat(0, i - 1), repeat(9, i) >>]
           \o << << <<1>> \o repeat(0, sat_range_end_length - 1), sat_range_end_string >> >>

RECURSIVE extend_all(_, _)
extend_all(ranges, palindromes) ==
  IF Len(ranges) = 0 THEN palindromes
  ELSE extend_all(Tail(ranges),
         palindromes \o get_palindromes_from_equal_length_range(Head(ranges)[1], Head(ranges)[2]))

\* both bounds inclusive
get_palindromes_from_sat_range(start, end) ==
  extend_all(equal_length_ranges(start, end), <<>>)

---------------------------------------------------------------------------
(* u64 arithmetic.  An operation whose mathematical result leaves          *)
(* 0..U64_MODULUS-1 panics in a build with overflow checks and wraps in a  *)
(* build without them.  A computation ends in one of                       *)
(*   ok     a value                                                        *)
(*   panic  the thread unwinds ("attempt to subtract with overflow")       *)
(*   abort  a Vec grew past what the allocator grants                      *)

\* the longest Vec<u64> the allocator grants to one enumerator loop
MaxVecLen == 60

Ok(v) == [tag |-> "ok", val |-> v]
Panic == [tag |-> "panic", val |-> <<>>]
Abort == [tag |-> "abort", val |-> <<>>]

in_u64(x) == 0 <= x /\ x < U64_MODULUS
wrap(x) == x % U64_MODULUS

RECURSIVE alpha_loop(_, _, _)
alpha_loop(alpha, end, alphas) ==
  IF ~(alpha < end) THEN Ok(alphas)
  ELSE IF Len(alphas) >= MaxVecLen THEN Abort
  ELSE IF ~in_u64(alpha + COIN_VALUE) /\ overflow_checks THEN Panic
  ELSE alpha_loop(wrap(alpha + COIN_VALUE), end, Append(alphas, alpha))

get_alpha_from_sat_range(start, end) ==
  IF ~in_u64(start - 1) /\ overflow_checks THEN Panic
  ELSE LET first == (wrap(start - 1) \div COIN_VALUE) * COIN_VALUE + COIN_VALUE
       IN  IF ~in_u64(first) /\ overflow_checks THEN Panic
           ELSE alpha_loop(wrap(first), end, <<>>)

RECURSIVE omega_loop(_, _, _)
omega_loop(omega, start, omegas) ==
  IF ~(omega >= start) THEN Ok(omegas)
  ELSE IF Len(omegas) >= MaxVecLen THEN Abort
  ELSE IF ~in_u64(omega - COIN_VALUE) /\ overflow_checks THEN Panic
  ELSE omega_loop(wrap(omega - COIN_VALUE), start, Append(omegas, omega))

\* get_omega_from_sat_range starting from the first boundary at or after end
get_omega_from_sat_range_round_up(start, end) ==
  omega_loop(((end + COIN_VALUE - 1) \div COIN_VALUE) * COIN_VALUE - 1, start, <<>>)

get_omega_from_sat_range(start, end) ==
  LET first == (end \div COIN_VALUE) * COIN_VALUE - 1
  IN  IF ~in_u64(first) /\ overflow_checks THEN Panic
      ELSE omega_loop(wrap(first), start, <<>>)

---------------------------------------------------------------------------
(* block_rarity.rs: constants and tables *)

VINTAGE_BLOCK_HEIGHT == 1000
BLOCK9_BLOCK_HEIGHT == 9
BLOCK78_BLOCK_HEIGHT == 78
BLOCK286_BLOCK_HEIGHT == 286
BLOCK666_BLOCK_HEIGHT == 666
NAKAMOTO_BLOCK_HEIGHTS ==
  {9, 286, 688, 877, 1760, 2459, 2485, 3479, 5326, 9443, 9925, 10645, 14450, 15625,
   15817, 19093, 23014, 28593, 29097}
\* the only member the tests show (162064056592929 lies in block 32412)
JPEG_BLOCK_HEIGHTS == {32412}

\* the window of the first transaction ending one coin early
FIRST_TRANSACTION_SAT_RANGE_short == <<450 * COIN_VALUE, 459 * COIN_VALUE>>

\* (45000000000, 46000000000)
FIRST_TRANSACTION_SAT_RANGE == <<450 * COIN_VALUE, 460 * COIN_VALUE>>
\* the first coin of block 9; its end is 451 * COIN_VALUE
BLOCK9_450_SAT_RANGE == <<450 * COIN_VALUE, 451 * COIN_VALUE>>

\* Sat::height, first epoch: the block that issued sat n
Height(n) == n \div SUBSIDY

\* the 847 literal pairs, each bound divided by SatScale
PIZZA_RANGES == <<
  <<120485000, 120490000>>, <<155900000, 155905000>>, <<156145000, 156150000>>,
  <<156235000, 156240000>>, <<156375000, 156380000>>, <<157020000, 157025000>>,
  <<181804571, 181804572>>, <<181804573, 181804575>>, <<181804576, 181804577>>,
  <<181804582, 181804583>>, <<181804584, 181804586>>, <<181804587, 181804589>>,
  <<181804592, 181804593>>, <<181804594, 181804595>>, <<184110000, 184115000>>,
  <<186165000, 186170000>>, <<187189895, 187190000>>, <<187755000, 187757495>>,
  <<192020000, 192025000>>, <<193765000, 193765595>>, <<198831795, 198835000>>,
  <<198955000, 198960000>>, <<200396095, 200396295>>, <<202325000, 202330000>>,
  <<202475000, 202480000>>, <<202705000, 202710000>>, <<203485000, 203490000>>,
  <<204585000, 204589000>>, <<204589002, 204589003>>, <<204589004, 204589005>>,
  <<204589006, 204589008>>, <<204589017, 204589019>>, <<204589026, 204589028>>,
  <<204589029, 204589030>>, <<204589032, 204589033>>, <<204589034, 204589035>>,
  <<204589037, 204589038>>, <<204589041, 204589043>>, <<204589045, 204589046>>,
  <<204589061, 204589062>>, <<204589064, 204589065>>, <<204589066, 204589068>>,
  <<204589075, 204589077>>, <<204589080, 204589081>>, <<204589089, 204589090>>,
  <<204589098, 204589100>>, <<204589102, 204589103>>, <<204589106, 204589107>>,
  <<204589108, 204589109>>, <<204589112, 204589113>>, <<204589116, 204589117>>,
  <<204589119, 204589120>>, <<204589121, 204589122>>, <<204589125, 204589126>>,
  <<204589131, 204589132>>, <<204589136, 204589137>>, <<204589139, 204589140>>,
  <<204589147, 204589148>>, <<204589151, 204589152>>, <<204589157, 204589158>>,
  <<204589161, 204589165>>, <<204589166, 204589167>>, <<204589170, 204589172>>,
  <<204589174, 204589176>>, <<204589179, 204589182>>, <<204589184, 204589185>>,
  <<204589186, 204589189>>, <<204589199, 204589200>>, <<204589201, 204589203>>,
  <<204589206, 204589208>>, <<204589214, 204589216>>, <<204589223, 204589226>>,
  <<204589234, 204589236>>, <<204589241, 204589243>>, <<204589244, 204589245>>,
  <<204589252, 204589253>>, <<204589260, 204589261>>, <<204589262, 204589264>>,
  <<204589266, 204589268>>, <<204589269, 204589270>>, <<204589271, 204589272>>,
  <<204589275, 204589276>>, <<204589277, 204589278>>, <<204589281, 204589283>>,
  <<204589284, 204589285>>, <<204589288, 204589289>>, <<204589290, 204589292>>,
  <<204589294, 204589296>>, <<204589297, 204589299>>, <<204589301, 204589302>>,
  <<204589303, 204589304>>, <<204589305, 204589306>>, <<204589308, 204589310>>,
  <<204589312, 204589313>>, <<204589314, 204589316>>, <<204589317, 204589319>>,
  <<204589320, 204589321>>, <<204589326, 204589327>>, <<204589333, 204589334>>,
  <<204589335, 204589336>>, <<204589337, 204589338>>, <<204589347, 204589348>>,
  <<204589354, 204589355>>, <<204589362, 204589364>>, <<204589382, 204589383>>,
  <<204589388, 204589389>>, <<204589391, 204589392>>, <<204589397, 204589398>>,
  <<204589402, 204589403>>, <<204589410, 204589411>>, <<204589412, 204589419>>,
  <<204589424, 204589425>>, <<204589439, 204589440>>, <<204589441, 204589442>>,
  <<204589443, 204589444>>, <<204589445, 204589446>>, <<204589447, 204589448>>,
  <<204589450, 204589453>>, <<204589454, 204589456>>, <<204589457, 204589460>>,
  <<204589463, 204589464>>, <<204589465, 204589470>>, <<204589474, 204589475>>,
  <<204589484, 204589485>>, <<204589487, 204589489>>, <<204589492, 204589495>>,
  <<204589497, 204589498>>, <<204589503, 204589504>>, <<204589507, 204589509>>,
  <<204589511, 204589515>>, <<204589517, 204589518>>, <<204589523, 204589524>>,
  <<204589526, 204589527>>, <<204589531, 204589532>>, <<204589540, 204589541>>,
  <<204589543, 204589545>>, <<204589546, 204589548>>, <<204589549, 204589550>>,
  <<204589551, 204589552>>, <<204589556, 204589559>>, <<204589562, 204589563>>,
  <<204589564, 204589565>>, <<204589570, 204589571>>, <<204589572, 204589573>>,
  <<204589575, 204589577>>, <<204589579, 204589580>>, <<204589584, 204589585>>,
  <<204589592, 204589595>>, <<204589596, 204589597>>, <<204589606, 204589607>>,
  <<204589608, 204589609>>, <<204589611, 204589612>>, <<204589615, 204589616>>,
  <<204589617, 204589619>>, <<204589624, 204589625>>, <<204589626, 204589627>>,
  <<204589632, 204589634>>, <<204589636, 204589638>>, <<204589642, 204589643>>,
  <<204589645, 204589647>>, <<204589650, 204589651>>, <<204589657, 204589658>>,
  <<204589676, 204589677>>, <<204589679, 204589680>>, <<204589688, 204589689>>,
  <<204589691, 204589694>>, <<204589708, 204589709>>, <<204589717, 204589718>>,
  <<204589719, 204589721>>, <<204589724, 204589725>>, <<204589727, 204589729>>,
  <<204589731, 204589732>>, <<204589734, 204589735>>, <<204589742, 204589743>>,
  <<204589747, 204589748>>, <<204589758, 204589760>>, <<204589764, 204589765>>,
  <<204589766, 204589768>>, <<204589769, 204589770>>, <<204589771, 204589774>>,
  <<204589780, 204589781>>, <<204589782, 204589786>>, <<204589787, 204589788>>,
  <<204589792, 204589793>>, <<204589797, 204589798>>, <<204589799, 204589801>>,
  <<204589805, 204589806>>, <<204589807, 204589808>>, <<204589810, 204589811>>,
  <<204589812, 204589813>>, <<204589817, 204589818>>, <<204589821, 204589824>>,
  <<204589832, 204589833>>, <<204589834, 204589835>>, <<204589839, 204589840>>,
  <<204589846, 204589848>>, <<204589856, 204589857>>, <<204589858, 204589859>>,
  <<204589863, 204589864>>, <<204589865, 204589866>>, <<204589869, 204589870>>,
  <<204589873, 204589874>>, <<204589875, 204589876>>, <<204589883, 204589884>>,
  <<204589886, 204589888>>, <<204589889, 204589890>>, <<204589891, 204589892>>,
  <<204589893, 204589894>>, <<204589898, 204589899>>, <<204589900, 204589901>>,
  <<204589902, 204589905>>, <<204589906, 204589912>>, <<204589915, 204589916>>,
  <<204589917, 204589918>>, <<204589919, 204589921>>, <<204589924, 204589925>>,
  <<204589927, 204589928>>, <<204589930, 204589931>>, <<204589933, 204589934>>,
  <<204589937, 204589939>>, <<204589943, 204589945>>, <<204589949, 204589950>>,
  <<204589952, 204589953>>, <<204589955, 204589956>>, <<204589959, 204589961>>,
  <<204589963, 204589964>>, <<204589968, 204589969>>, <<204589971, 204589972>>,
  <<204589975, 204589976>>, <<204589984, 204589987>>, <<204589988, 204589989>>,
  <<204589990, 204589992>>, <<204589998, 204589999>>, <<204595000, 204600000>>,
  <<205665000, 205670000>>, <<206160000, 206165000>>, <<233324700, 233325000>>,
  <<233491541, 233491542>>, <<233491544, 233491545>>, <<233491551, 233491552>>,
  <<233491554, 233491555>>, <<233491556, 233491558>>, <<233491562, 233491563>>,
  <<233491565, 233491566>>, <<233491567, 233491568>>, <<233491572, 233491574>>,
  <<233491577, 233491578>>, <<233491582, 233491583>>, <<233491592, 233491593>>,
  <<233491595, 233491596>>, <<233491597, 233491598>>, <<233491601, 233491602>>,
  <<233491608, 233491609>>, <<233491612, 233491613>>, <<233491619, 233491620>>,
  <<233491622, 233491625>>, <<233491626, 233491627>>, <<233491629, 233491630>>,
  <<233491631, 233491632>>, <<233491642, 233491643>>, <<233491646, 233491647>>,
  <<233491649, 233491650>>, <<233491653, 233491654>>, <<233491661, 233491662>>,
  <<233491663, 233491665>>, <<233491666, 233491668>>, <<233491669, 233491670>>,
  <<233491671, 233491673>>, <<233491674, 233491676>>, <<233491679, 233491680>>,
  <<233491682, 233491683>>, <<233491688, 233491689>>, <<233491693, 233491694>>,
  <<233491695, 233491696>>, <<233491700, 233491704>>, <<233491707, 233491709>>,
  <<233491715, 233491716>>, <<233491724, 233491726>>, <<233491727, 233491729>>,
  <<233491736, 233491737>>, <<233491739, 233492240>>, <<233492246, 233492248>>,
  <<233492249, 233492250>>, <<233492252, 233492253>>, <<233492260, 233492261>>,
  <<233492263, 233492266>>, <<233492274, 233492275>>, <<233492276, 233492277>>,
  <<233492278, 233492280>>, <<233492281, 233492282>>, <<233492285, 233492286>>,
  <<233492287, 233492289>>, <<233492290, 233492291>>, <<233492292, 233492293>>,
  <<233492299, 233492300>>, <<233492304, 233492305>>, <<233492312, 233492313>>,
  <<233492317, 233492319>>, <<233492320, 233492322>>, <<233492324, 233492326>>,
  <<233492333, 233492334>>, <<233492338, 233492339>>, <<233492342, 233492343>>,
  <<233492350, 233492351>>, <<233492352, 233492353>>, <<233492359, 233492361>>,
  <<233492364, 233492366>>, <<233492368, 233492369>>, <<233492370, 233492371>>,
  <<233492373, 233492374>>, <<233492376, 233492377>>, <<233492383, 233492384>>,
  <<233492393, 233492394>>, <<233492402, 233492403>>, <<233492408, 233492409>>,
  <<233492410, 233492411>>, <<233492416, 233492417>>, <<233492418, 233492419>>,
  <<233492423, 233492426>>, <<233492429, 233492430>>, <<233492434, 233492437>>,
  <<233492446, 233492447>>, <<233492448, 233492450>>, <<233492452, 233492453>>,
  <<233492455, 233492457>>, <<233492466, 233492467>>, <<233492468, 233492469>>,
  <<233492472, 233492473>>, <<233492475, 233492476>>, <<233492478, 233492479>>,
  <<233492481, 233492482>>, <<233492483, 233492485>>, <<233492489, 233492490>>,
  <<233492494, 233492495>>, <<233492497, 233492499>>, <<233492501, 233492503>>,
  <<233492514, 233492515>>, <<233492522, 233492523>>, <<233492527, 233492530>>,
  <<233492531, 233492532>>, <<233492535, 233492536>>, <<233492540, 233495000>>,
  <<235110000, 235115000>>, <<235675000, 235676240>>, <<235676281, 235676541>>,
  <<235676543, 235676545>>, <<235676552, 235676553>>, <<235676554, 235676555>>,
  <<235676559, 235676560>>, <<235676565, 235676566>>, <<235676567, 235676569>>,
  <<235676570, 235676571>>, <<235676573, 235676574>>, <<235676575, 235676577>>,
  <<235676578, 235676579>>, <<235676580, 235676581>>, <<235676582, 235676583>>,
  <<235676585, 235676586>>, <<235676587, 235676588>>, <<235676590, 235676591>>,
  <<235676593, 235676595>>, <<235676599, 235676600>>, <<235676601, 235676602>>,
  <<235676613, 235676614>>, <<235676623, 235676624>>, <<235676625, 235676626>>,
  <<235676635, 235677240>>, <<237545000, 237550000>>, <<237775000, 237780000>>,
  <<237795000, 237800000>>, <<239530000, 239535000>>, <<239590000, 239595000>>,
  <<239655000, 239660000>>, <<239765000, 239770000>>, <<240205000, 240210000>>,
  <<241070000, 241075000>>, <<243435000, 243440000>>, <<243930000, 243935000>>,
  <<244310000, 244315000>>, <<246210000, 246210536>>, <<246210541, 246211424>>,
  <<246211426, 246211427>>, <<246211436, 246211440>>, <<246211441, 246211442>>,
  <<246211444, 246211445>>, <<246211460, 246211462>>, <<246211465, 246211466>>,
  <<246211473, 246211474>>, <<246211477, 246211478>>, <<246211479, 246211480>>,
  <<246211484, 246211485>>, <<246211487, 246211490>>, <<246211495, 246211497>>,
  <<246211500, 246211502>>, <<246211507, 246211508>>, <<246211512, 246211513>>,
  <<246211514, 246211515>>, <<246211518, 246211520>>, <<246211525, 246211526>>,
  <<246211532, 246211533>>, <<246211535, 246211536>>, <<246211539, 246211541>>,
  <<248800000, 248805000>>, <<248855000, 248860000>>, <<249050000, 249055000>>,
  <<249175000, 249176301>>, <<249176303, 249176304>>, <<249176306, 249176307>>,
  <<249176313, 249176314>>, <<249176319, 249176321>>, <<249176323, 249176324>>,
  <<249176325, 249176326>>, <<249176329, 249176330>>, <<249176348, 249176349>>,
  <<249176352, 249176353>>, <<249176354, 249176356>>, <<249176358, 249176359>>,
  <<249176362, 249176363>>, <<249176366, 249176367>>, <<249176371, 249176372>>,
  <<249176374, 249176375>>, <<249176378, 249176379>>, <<249176386, 249176387>>,
  <<249176389, 249176390>>, <<249176394, 249176395>>, <<249176396, 249176397>>,
  <<249176399, 249176400>>, <<249176402, 249176403>>, <<249176404, 249176406>>,
  <<249176407, 249176408>>, <<249176412, 249176413>>, <<249176415, 249176418>>,
  <<249176420, 249176421>>, <<249176435, 249176436>>, <<249176438, 249176440>>,
  <<249176448, 249176449>>, <<249176450, 249176451>>, <<249176457, 249176461>>,
  <<249176465, 249176466>>, <<249176467, 249176469>>, <<249176476, 249176477>>,
  <<249176480, 249176481>>, <<249176484, 249176485>>, <<249176486, 249176488>>,
  <<249176497, 249176499>>, <<249176502, 249176503>>, <<249176504, 249176508>>,
  <<249176512, 249176513>>, <<249176518, 249176519>>, <<249176521, 249176523>>,
  <<249176525, 249176527>>, <<249176529, 249176530>>, <<249176541, 249176542>>,
  <<249176549, 249176551>>, <<249176552, 249176553>>, <<249176556, 249176557>>,
  <<249176560, 249176561>>, <<249176562, 249176564>>, <<249176579, 249176580>>,
  <<249176581, 249176582>>, <<249176583, 249176584>>, <<249176588, 249176589>>,
  <<249176590, 249176591>>, <<249176592, 249176594>>, <<249176598, 249176599>>,
  <<249176602, 249176603>>, <<249176605, 249176607>>, <<249176611, 249176612>>,
  <<249176617, 249176618>>, <<249176620, 249176621>>, <<249176624, 249176625>>,
  <<249176626, 249176628>>, <<249176634, 249176635>>, <<249176639, 249176641>>,
  <<249176642, 249176643>>, <<249176645, 249176646>>, <<249176650, 249176651>>,
  <<249176654, 249176655>>, <<249176660, 249176662>>, <<249176667, 249176668>>,
  <<249176671, 249176672>>, <<249176673, 249176674>>, <<249176676, 249176677>>,
  <<249176678, 249176680>>, <<249176686, 249176687>>, <<249176690, 249176691>>,
  <<249176694, 249176695>>, <<249176696, 249176698>>, <<249176900, 249180000>>,
  <<249330000, 249332000>>, <<249334000, 249334400>>, <<249375000, 249380000>>,
  <<249640002, 249640004>>, <<249640008, 249640009>>, <<249640010, 249640012>>,
  <<249640014, 249640015>>, <<249640021, 249640022>>, <<249640024, 249640027>>,
  <<249640029, 249640030>>, <<249640032, 249640033>>, <<249640035, 249640036>>,
  <<249640038, 249640039>>, <<249640041, 249640043>>, <<249640047, 249640048>>,
  <<249640051, 249640053>>, <<249640061, 249640062>>, <<249640065, 249640066>>,
  <<249640067, 249640072>>, <<249640076, 249640077>>, <<249640080, 249640083>>,
  <<249640088, 249640089>>, <<249640090, 249640091>>, <<249640093, 249640094>>,
  <<249640096, 249640097>>, <<249640098, 249640099>>, <<249640100, 249640402>>,
  <<249640404, 249640406>>, <<249640411, 249640412>>, <<249640413, 249640415>>,
  <<249640418, 249640419>>, <<249640420, 249640422>>, <<249640432, 249640433>>,
  <<249640434, 249640435>>, <<249640436, 249640437>>, <<249640444, 249640445>>,
  <<249640449, 249640450>>, <<249640454, 249640456>>, <<249640458, 249640459>>,
  <<249640467, 249640469>>, <<249640476, 249640477>>, <<249640478, 249640480>>,
  <<249640485, 249640487>>, <<249640488, 249640489>>, <<249640492, 249640494>>,
  <<249640498, 249640499>>, <<249641000, 249641101>>, <<249641102, 249641103>>,
  <<249641106, 249641107>>, <<249641111, 249641113>>, <<249641119, 249641120>>,
  <<249641124, 249641125>>, <<249641128, 249641129>>, <<249641133, 249641135>>,
  <<249641140, 249641142>>, <<249641145, 249641146>>, <<249641149, 249641150>>,
  <<249641151, 249641152>>, <<249641153, 249641155>>, <<249641157, 249641158>>,
  <<249641164, 249641166>>, <<249641167, 249641168>>, <<249641170, 249641171>>,
  <<249641172, 249641173>>, <<249641175, 249641176>>, <<249641180, 249641181>>,
  <<249641182, 249641183>>, <<249641184, 249641185>>, <<249641186, 249641187>>,
  <<249641193, 249641194>>, <<249641196, 249641197>>, <<249641199, 249641300>>,
  <<249641303, 249641306>>, <<249641309, 249641310>>, <<249641316, 249641317>>,
  <<249641320, 249641321>>, <<249641327, 249641328>>, <<249641329, 249641330>>,
  <<249641331, 249641337>>, <<249641344, 249641347>>, <<249641350, 249641351>>,
  <<249641352, 249641353>>, <<249641357, 249641358>>, <<249641359, 249641360>>,
  <<249641362, 249641365>>, <<249641370, 249641371>>, <<249641373, 249641374>>,
  <<249641375, 249641376>>, <<249641377, 249641379>>, <<249641381, 249641382>>,
  <<249641389, 249641390>>, <<249641391, 249641392>>, <<249641395, 249641397>>,
  <<249641399, 249642200>>, <<249643700, 249644029>>, <<249644200, 249645000>>,
  <<249930000, 249934995>>, <<250100000, 250105000>>, <<250785000, 250790000>>,
  <<250990000, 250995000>>, <<251050000, 251055000>>, <<251090006, 251090008>>,
  <<251090011, 251090012>>, <<251090014, 251090015>>, <<251090017, 251090018>>,
  <<251090020, 251090021>>, <<251090025, 251090026>>, <<251090028, 251090029>>,
  <<251090036, 251090037>>, <<251090041, 251090042>>, <<251090044, 251090046>>,
  <<251090051, 251090052>>, <<251090054, 251090056>>, <<251090061, 251090062>>,
  <<251090069, 251090073>>, <<251090080, 251090081>>, <<251090083, 251090084>>,
  <<251090095, 251090096>>, <<251090097, 251090099>>, <<251090101, 251090103>>,
  <<251090104, 251090105>>, <<251090108, 251090110>>, <<251090113, 251090114>>,
  <<251090115, 251090116>>, <<251090118, 251090120>>, <<251090122, 251090123>>,
  <<251090124, 251090125>>, <<251090132, 251090133>>, <<251090138, 251090139>>,
  <<251090144, 251090145>>, <<251090150, 251090151>>, <<251090155, 251090157>>,
  <<251090163, 251090164>>, <<251090167, 251090168>>, <<251090169, 251090170>>,
  <<251090172, 251090173>>, <<251090174, 251090175>>, <<251090176, 251090177>>,
  <<251090178, 251090179>>, <<251090183, 251090184>>, <<251090189, 251090193>>,
  <<251090194, 251090197>>, <<251090205, 251090206>>, <<251090209, 251090211>>,
  <<251090217, 251090218>>, <<251090219, 251090220>>, <<251090221, 251090223>>,
  <<251090225, 251090226>>, <<251090229, 251090231>>, <<251090234, 251090236>>,
  <<251090243, 251090244>>, <<251090246, 251090247>>, <<251090248, 251090249>>,
  <<251090256, 251090257>>, <<251090258, 251090259>>, <<251090264, 251090265>>,
  <<251090268, 251090270>>, <<251090275, 251090276>>, <<251090285, 251090286>>,
  <<251090288, 251090290>>, <<251090300, 251090301>>, <<251090303, 251090304>>,
  <<251090305, 251090306>>, <<251090308, 251090309>>, <<251090310, 251090311>>,
  <<251090320, 251090321>>, <<251090326, 251090327>>, <<251090328, 251090330>>,
  <<251090334, 251090335>>, <<251090341, 251090342>>, <<251090351, 251090352>>,
  <<251090355, 251090358>>, <<251090359, 251090360>>, <<251090363, 251090364>>,
  <<251090369, 251090371>>, <<251090374, 251090376>>, <<251090381, 251090383>>,
  <<251090386, 251090387>>, <<251090391, 251090392>>, <<251090394, 251090395>>,
  <<251090396, 251090397>>, <<251090398, 251095000>>, <<251890000, 251895000>>,
  <<252240000, 252245000>>, <<252310000, 252315000>>, <<252700000, 252705000>>,
  <<253405000, 253410000>>, <<253935000, 253940000>>, <<254090000, 254095000>>,
  <<254240000, 254245000>>, <<254955000, 254960000>>, <<255910000, 255915000>>,
  <<255980000, 255985000>>, <<256215000, 256220000>>, <<256445000, 256450000>>,
  <<256625000, 256630000>>, <<256850000, 256855000>>, <<256855000, 256860000>>,
  <<257020000, 257025000>>, <<257045001, 257045005>>, <<257045015, 257045017>>,
  <<257045018, 257045019>>, <<257045022, 257045023>>, <<257045026, 257045027>>,
  <<257045030, 257045031>>, <<257045033, 257045034>>, <<257045041, 257045043>>,
  <<257045044, 257045045>>, <<257045051, 257045052>>, <<257045054, 257045055>>,
  <<257045058, 257045059>>, <<257045063, 257045064>>, <<257045067, 257045068>>,
  <<257045072, 257045075>>, <<257045080, 257045081>>, <<257045083, 257045084>>,
  <<257045087, 257045088>>, <<257045090, 257050000>>, <<257470000, 257475000>>,
  <<257485000, 257490000>>, <<257700000, 257705000>>, <<258030000, 258035000>>,
  <<258395000, 258395100>>, <<258715000, 258720000>>, <<258740000, 258745000>>,
  <<258970000, 258975000>>, <<259010000, 259015000>>, <<259280000, 259285000>>,
  <<260575000, 260580000>>, <<260580000, 260585000>>, <<260620000, 260625000>>,
  <<260764000, 260765000>>, <<261560000, 261565000>>, <<261700000, 261705000>>,
  <<262005000, 262010000>>, <<263080000, 263081500>>, <<263084000, 263084500>>,
  <<265675000, 265680000>>, <<265685000, 265690000>>, <<265915000, 265920000>>,
  <<267295000, 267300000>>, <<267390000, 267395000>>, <<267560000, 267565000>>,
  <<268250000, 268255000>>, <<268335000, 268340000>>, <<268390000, 268395000>>,
  <<268675000, 268680000>>, <<269075000, 269080000>>, <<271725000, 271730000>>,
  <<272150000, 272155000>>, <<272155000, 272160000>>, <<272195000, 272200000>>,
  <<272200000, 272205000>>, <<272505000, 272510000>>, <<276210000, 276215000>>,
  <<276495000, 276500000>>, <<276955000, 276960000>>, <<277100000, 277105000>>,
  <<277185000, 277190000>>, <<278660000, 278665000>>, <<278715000, 278720000>>,
  <<278720000, 278725000>>, <<278830000, 278835000>>, <<278980000, 278985000>>,
  <<279080000, 279085000>>, <<279140000, 279145000>>, <<279350000, 279355000>>,
  <<279360000, 279365000>>, <<279405000, 279410000>>, <<279465000, 279470000>>,
  <<279495000, 279500000>>, <<279510000, 279515000>>, <<279880000, 279885000>>,
  <<280070000, 280075000>>, <<280075000, 280080000>>, <<280090000, 280095000>>,
  <<280095000, 280100000>>, <<280140000, 280145000>>, <<280150000, 280155000>>,
  <<280160000, 280165000>>, <<280170000, 280175000>>, <<280265000, 280270000>>,
  <<280290000, 280295000>>, <<280305000, 280310000>>, <<280330000, 280335000>>,
  <<280345000, 280350000>>, <<280385000, 280390000>>, <<280390000, 280395000>>,
  <<280420000, 280425000>>, <<280445000, 280450000>>, <<280480000, 280485000>>,
  <<280520000, 280525000>>, <<280555000, 280560000>>, <<280585000, 280590000>>,
  <<280625000, 280630000>>, <<280630000, 280635000>>, <<280635000, 280640000>>,
  <<280680000, 280685000>>, <<280750000, 280755000>>, <<280760000, 280765000>>,
  <<280810000, 280815000>>, <<280820000, 280825000>>, <<280835000, 280840000>>,
  <<280840000, 280845000>>, <<280845000, 280850000>>, <<280850000, 280855000>>,
  <<280910000, 280915000>>, <<280915000, 280920000>>, <<280930000, 280935000>>,
  <<280940000, 280945000>>, <<280945000, 280950000>>, <<280980000, 280985000>>,
  <<280995000, 281000000>>, <<281005000, 281010000>>, <<281070000, 281075000>>,
  <<281095000, 281100000>>, <<281100000, 281105000>>, <<281740000, 281745000>>,
  <<281755000, 281760000>>, <<281770000, 281775000>>, <<281780000, 281785000>>,
  <<281805000, 281810000>>, <<281840000, 281845000>>, <<281860000, 281865000>>,
  <<281870000, 281875000>>, <<281910000, 281915000>>, <<281970000, 281975000>>,
  <<281995000, 282000000>>, <<282000000, 282005000>>, <<282030000, 282035000>>,
  <<282035000, 282040000>>, <<282060000, 282065000>>, <<282065000, 282070000>>,
  <<282520000, 282525000>>, <<282535000, 282540000>>, <<282560000, 282565000>>,
  <<282605000, 282610000>>, <<282655000, 282660000>>, <<282665000, 282670000>>,
  <<282695000, 282700000>>, <<282730000, 282735000>>, <<282755000, 282760000>>,
  <<282775000, 282780000>>, <<282815000, 282820000>>, <<282885000, 282890000>>,
  <<282945000, 282950000>>, <<282960000, 282965000>>, <<282985000, 282990000>>,
  <<282990000, 282995000>>, <<282995000, 283000000>>, <<283620000, 283625000>>,
  <<283740000, 283745000>>, <<283755000, 283760000>>, <<283840000, 283845000>>,
  <<283885000, 283889901>>, <<283915000, 283920000>>, <<283930000, 283935000>>,
  <<283935000, 283940000>>
  >>

\* a table absent from the sources: one interval around the range of
\* test_hitman_range (500438693191798, 500438695191798), block 100087
HITMAN_RANGES == << <<500438000, 500439000>> >>

\* a table absent from the sources: two intervals of one block with a gap,
\* the shape test_legacy_range shows
LEGACY_RANGES == << <<500440010, 500440020>>, <<500440030, 500440040>> >>

\* lazy_static: bucket the pairs by start / (50 * COIN_VALUE), each bucket
\* in the order of the literal list
range_map(ranges) ==
  [block_height \in {ranges[i][1] \div (50 * COIN_VALUE) : i \in 1..Len(ranges)} |->
     SelectSeq(ranges, LAMBDA r : r[1] \div (50 * COIN_VALUE) = block_height)]

PIZZA_RANGE_MAP == range_map(PIZZA_RANGES)
LEGACY_RANGE_MAP == range_map(LEGACY_RANGES)
HITMAN_RANGE_MAP == range_map(HITMAN_RANGES)

\* the refinements of a palindrome, as the tests of get_block_rarities show
\* them: the digits split into two or more blocks of one length (at least
\* 2), each block a palindrome (uniform), all blocks equal (perfect).  A
\* string of one repeated digit is uniform as well, by the description of
\* the kind; the tests have no such string.
block_lengths(s) == {b \in 2..(Len(s) - 1) : Len(s) % b = 0}
block_of(s, b, j) == SubSeq(s, (j - 1) * b + 1, j * b)

one_digit(s) == \A i \in 1..Len(s) : s[i] = s[1]

is_uniform_palindrome(s) ==
  \/ one_digit(s)
  \/ \E b \in block_lengths(s) :
       \A j \in 1..(Len(s) \div b) : block_of(s, b, j) = rev(block_of(s, b, j))

is_perfect_palindrome(s) ==
  \E b \in block_lengths(s) :
    \A j \in 1..(Len(s) \div b) :
      /\ block_of(s, b, j) = rev(block_of(s, b, j))
      /\ block_of(s, b, j) = block_of(s, b, 1)

---------------------------------------------------------------------------
(* rpc.rs: get_block_rarity_chunks *)

max(a, b) == IF a >= b THEN a ELSE b
\* min that forgets to clip
min_first(a, b) == a

min(a, b) == IF a <= b THEN a ELSE b

\* curated_chunks that pushes every interval of the block, skipping none
curated_chunks_no_skip(sat_ranges, start, end) ==
  [i \in 1..Len(sat_ranges) |->
     <<max(sat_ranges[i][1], start), min(sat_ranges[i][2], end)>>]

\* the loop of the Pizza, Legacy and Hitman arms over one block's
\* intervals: an interval is skipped (continue) or clipped and pushed
curated_chunks(sat_ranges, start, end) ==
  LET pushed == SelectSeq(sat_ranges,
                  LAMBDA range : ~((start >= range[2]) \/ (end <= range[1])))
  IN  [i \in 1..Len(pushed) |-> <<max(pushed[i][1], start), min(pushed[i][2], end)>>]

\* contains_key, then get(..).unwrap()
curated_arm(map, block_height, start, end) ==
  IF block_height \in DOMAIN map
  THEN curated_chunks(map[block_height], start, end)
  ELSE <<>>

\* for x in xs { chunks.push((x, x + 1)) }
unit_chunks(xs) == [i \in 1..Len(xs) |-> <<xs[i], xs[i] + 1>>]

\* the Palindrome arm with the uniform list filled by the test for perfect
palindrome_arm_uniform_by_perfect(block_height, start, end) ==
  LET palindromes == get_palindromes_from_sat_range(start, end - 1)
      perfect_chunks ==
        unit_chunks(SelectSeq(palindromes, LAMBDA p : is_perfect_palindrome(to_string(p))))
      paliblock_chunks ==
        unit_chunks(SelectSeq(palindromes, LAMBDA p : is_palindrome(block_height)))
  IN  << <<"Palindrome", unit_chunks(palindromes)>>,
         <<"PerfectPalinception", perfect_chunks>>,
         <<"UniformPalinception", perfect_chunks>>,
         <<"PaliblockPalindrome", paliblock_chunks>> >>

\* the Palindrome arm with the block test made on the sat instead of the height
palindrome_arm_paliblock_by_sat(block_height, start, end) ==
  LET palindromes == get_palindromes_from_sat_range(start, end - 1)
      perfect_chunks ==
        unit_chunks(SelectSeq(palindromes, LAMBDA p : is_perfect_palindrome(to_string(p))))
      uniform_chunks ==
        unit_chunks(SelectSeq(palindromes, LAMBDA p : is_uniform_palindrome(to_string(p))))
  IN  << <<"Palindrome", unit_chunks(palindromes)>>,
         <<"PerfectPalinception", perfect_chunks>>,
         <<"UniformPalinception", uniform_chunks>>,
         <<"PaliblockPalindrome", unit_chunks(SelectSeq(palindromes, is_palindrome))>> >>

\* the Palindrome arm: one enumeration, four lists
palindrome_arm(block_height, start, end) ==
  LET palindromes == get_palindromes_from_sat_range(start, end - 1)
      normal_chunks == unit_chunks(palindromes)
      perfect_chunks ==
        unit_chunks(SelectSeq(palindromes, LAMBDA p : is_perfect_palindrome(to_string(p))))
      uniform_chunks ==
        unit_chunks(SelectSeq(palindromes, LAMBDA p : is_uniform_palindrome(to_string(p))))
      paliblock_chunks ==
        unit_chunks(SelectSeq(palindromes, LAMBDA p : is_palindrome(block_height)))
  IN  << <<"Palindrome", normal_chunks>>,
         <<"PerfectPalinception", perfect_chunks>>,
         <<"UniformPalinception", uniform_chunks>>,
         <<"PaliblockPalindrome", paliblock_chunks>> >>

\* whole_if that pushes the range whatever the height
whole_if_any_height(cond, block_rarity, start, end) ==
  << <<block_rarity, << <<start, end>> >> >> >>

whole_if(cond, block_rarity, start, end) ==
  IF cond THEN << <<block_rarity, << <<start, end>> >> >> >> ELSE <<>>

\* the value is the list res of (kind, chunks) pairs
get_block_rarity_chunks(block_rarity, start, end) ==
  LET block_height == Height(start)
  IN  CASE block_rarity = "Vintage" ->
             Ok(whole_if(block_height <= VINTAGE_BLOCK_HEIGHT, block_rarity, start, end))
        [] block_rarity = "Nakamoto" ->
             Ok(whole_if(block_height \in NAKAMOTO_BLOCK_HEIGHTS, block_rarity, start, end))
        [] block_rarity = "Block9" ->
             IF block_height = BLOCK9_BLOCK_HEIGHT
             THEN Ok(<< <<block_rarity, << <<start, end>> >> >> >>
                     \o (IF start < BLOCK9_450_SAT_RANGE[2]
                         THEN << <<"Block9_450",
                                   << <<start, min(BLOCK9_450_SAT_RANGE[2], end)>> >> >> >>
                         ELSE <<>>))
             ELSE Ok(<<>>)
        [] block_rarity = "Block78" ->
             Ok(whole_if(block_height = BLOCK78_BLOCK_HEIGHT, block_rarity, start, end))
        [] block_rarity = "Block286" ->
             Ok(whole_if(block_height = BLOCK286_BLOCK_HEIGHT, block_rarity, start, end))
        [] block_rarity = "FirstTransaction" ->
             IF block_height = BLOCK9_BLOCK_HEIGHT /\ start < FIRST_TRANSACTION_SAT_RANGE[2]
             THEN Ok(<< <<block_rarity,
                          << <<start, min(FIRST_TRANSACTION_SAT_RANGE[2], end)>> >> >> >>)
             ELSE Ok(<<>>)
        [] block_rarity = "Pizza" ->
             Ok(<< <<block_rarity, curated_arm(PIZZA_RANGE_MAP, block_height, start, end)>> >>)
        [] block_rarity = "Palindrome" ->
             Ok(palindrome_arm(block_height, start, end))
        [] block_rarity = "Alpha" ->
             LET alphas == get_alpha_from_sat_range(start, end)
             IN  IF alphas.tag = "ok"
                 THEN Ok(<< <<block_rarity, unit_chunks(alphas.val)>> >>)
                 ELSE alphas
        [] block_rarity = "Omega" ->
             LET omegas == get_omega_from_sat_range(start, end)
             IN  IF omegas.tag = "ok"
                 THEN Ok(<< <<block_rarity, unit_chunks(omegas.val)>> >>)
                 ELSE omegas
        [] block_rarity = "JPEG" ->
             Ok(whole_if(block_height \in JPEG_BLOCK_HEIGHTS, block_rarity, start, end))
        [] block_rarity = "Legacy" ->
             Ok(<< <<block_rarity, curated_arm(LEGACY_RANGE_MAP, block_height, start, end)>> >>)
        [] block_rarity = "Hitman" ->
             Ok(<< <<block_rarity, curated_arm(HITMAN_RANGE_MAP, block_height, start, end)>> >>)
        [] block_rarity = "Block666" ->
             Ok(whole_if(block_height = BLOCK666_BLOCK_HEIGHT, block_rarity, start, end))
        [] OTHER -> Ok(<<>>)

---------------------------------------------------------------------------
(* rpc.rs: get_block_rarities *)

\* the list with Omega evaluated before Alpha
EVALUATION_LIST_omega_first ==
  <<"Vintage", "Nakamoto", "Block9", "Block78", "FirstTransaction", "Pizza",
    "Palindrome", "Omega", "Alpha", "PerfectPalinception", "UniformPalinception",
    "Block286", "JPEG", "Legacy", "Hitman", "Block666", "PaliblockPalindrome">>

\* the list with Vintage named a second time, in the place of JPEG
EVALUATION_LIST_vintage_twice ==
  <<"Vintage", "Nakamoto", "Block9", "Block78", "FirstTransaction", "Pizza",
    "Palindrome", "Alpha", "Omega", "PerfectPalinception", "UniformPalinception",
    "Block286", "Vintage", "Legacy", "Hitman", "Block666", "PaliblockPalindrome">>

\* the array the for loop walks
EVALUATION_LIST ==
  <<"Vintage", "Nakamoto", "Block9", "Block78", "FirstTransaction", "Pizza",
    "Palindrome", "Alpha", "Omega", "PerfectPalinception", "UniformPalinception",
    "Block286", "JPEG", "Legacy", "Hitman", "Block666", "PaliblockPalindrome">>

\* push_non_empty without the is_empty test
push_all(report, rarities) ==
  report \o [i \in 1..Len(rarities) |->
               [block_rarity |-> rarities[i][1], chunks |-> rarities[i][2]]]

\* for (rarity, chunks) in rarities { if !chunks.is_empty() { push } }
RECURSIVE push_non_empty(_, _)
push_non_empty(report, rarities) ==
  IF Len(rarities) = 0 THEN report
  ELSE push_non_empty(
         IF Len(Head(rarities)[2]) # 0
         THEN Append(report, [block_rarity |-> Head(rarities)[1],
                              chunks |-> Head(rarities)[2]])
         ELSE report,
         Tail(rarities))

\* range_error without the comparison of the block heights
range_error_order_only(start, end) ==
  IF start >= end THEN "start >= end" ELSE ""

\* range_error with the height of end in place of that of end - 1
range_error_by_end(start, end) ==
  IF start >= end THEN "start >= end"
  ELSE IF Height(start) # Height(end) THEN "different blocks"
  ELSE ""

\* the two early returns; "" when the range passes
range_error(start, end) ==
  IF start >= end THEN "start >= end"
  ELSE IF Height(start) # Height(end - 1) THEN "different blocks"
  ELSE ""

\* the loop from its i-th kind on, with the report built so far
RECURSIVE rarities_from(_, _, _, _)
rarities_from(i, start, end, report) ==
  IF i > Len(EVALUATION_LIST) THEN Ok(report)
  ELSE LET rarities == get_block_rarity_chunks(EVALUATION_LIST[i], start, end)
       IN  IF rarities.tag # "ok" THEN rarities
           ELSE rarities_from(i + 1, start, end, push_non_empty(report, rarities.val))

\* ok (the report) | err (the message) | panic | abort
get_block_rarities(start, end) ==
  IF range_error(start, end) # ""
  THEN [tag |-> "err", val |-> range_error(start, end)]
  ELSE rarities_from(1, start, end, <<>>)

---------------------------------------------------------------------------
(* rpc.rs: get_sat_ranges, and the collaborators it calls *)

\* the longest request
MaxUtxos == 2

\* The references of the model.  What the parser and the index answer for
\* each is fixed; the answer of index.block_hash is chosen at each call.
REFERENCES == {"malformed", "unknown", "list_err", "coin", "pizza", "crossing", "genesis"}

\* OutPoint::from_str
from_str_ok(output) == output # "malformed"

\* index.list: err | none | some
index_list(output) ==
  CASE output = "list_err" -> [tag |-> "err", val |-> <<>>]
    [] output = "unknown"  -> [tag |-> "none", val |-> <<>>]
    [] output = "coin"     -> [tag |-> "some",
                               val |-> << <<3 * COIN_VALUE, 4 * COIN_VALUE>>,
                                          <<460 * COIN_VALUE - 10, 460 * COIN_VALUE + 10>> >>]
    [] output = "pizza"    -> [tag |-> "some", val |-> << <<204589006, 204589046>> >>]
    [] output = "crossing" -> [tag |-> "some",
                               val |-> << <<7 * COIN_VALUE + 1, 7 * COIN_VALUE + 3>>,
                                          <<SUBSIDY - 2, SUBSIDY + 2>> >>]
    [] output = "genesis"  -> [tag |-> "some", val |-> << <<0, SUBSIDY>> >>]
    [] OTHER               -> [tag |-> "none", val |-> <<>>]

\* index.block_hash: Result<Option<BlockHash>>
BLOCK_HASH_ANSWERS == {"some", "none", "err"}

\* rare_sats_from_outpoint: the sats of the ranges that open a block
rare_sats_from_outpoint(sat_ranges) ==
  SelectSeq([i \in 1..Len(sat_ranges) |-> sat_ranges[i][1]], LAMBDA n : n % SUBSIDY = 0)

\* the loop over the ranges with each entry put in front of the earlier ones
RECURSIVE for_ranges_newest_first(_, _, _, _)
for_ranges_newest_first(ranges, hashes, i, sat_ranges) ==
  IF i > Len(ranges)
  THEN [tag |-> "ok", val |-> sat_ranges, hash_calls |-> i - 1, unwrap_err |-> FALSE]
  ELSE LET range == ranges[i]
           rarities == get_block_rarities(range[1], range[2])
       IN  IF rarities.tag = "err"
           THEN [tag |-> "err", val |-> <<"range", rarities.val, range[1], range[2]>>,
                 hash_calls |-> i - 1, unwrap_err |-> FALSE]
           ELSE IF rarities.tag # "ok"
           THEN [tag |-> rarities.tag, val |-> <<>>, hash_calls |-> i - 1,
                 unwrap_err |-> FALSE]
           ELSE IF hashes[i] = "err"
           THEN [tag |-> "panic", val |-> <<>>, hash_calls |-> i, unwrap_err |-> TRUE]
           ELSE for_ranges_newest_first(ranges, hashes, i + 1,
                  <<[start |-> range[1], end |-> range[2],
                     block_rarities |-> rarities.val,
                     block_height |-> Height(range[1]),
                     block_hash |-> hashes[i]]>> \o sat_ranges)

\* the loop over the ranges of one output; hashes[i] is what
\* index.block_hash answers for the i-th range.  hash_calls counts the
\* calls of index.block_hash made, unwrap_err says that the unwrap of its
\* answer met an Err.
RECURSIVE for_ranges(_, _, _, _)
for_ranges(ranges, hashes, i, sat_ranges) ==
  IF i > Len(ranges)
  THEN [tag |-> "ok", val |-> sat_ranges, hash_calls |-> i - 1, unwrap_err |-> FALSE]
  ELSE LET range == ranges[i]
           rarities == get_block_rarities(range[1], range[2])
       IN  IF rarities.tag = "err"
           THEN [tag |-> "err", val |-> <<"range", rarities.val, range[1], range[2]>>,
                 hash_calls |-> i - 1, unwrap_err |-> FALSE]
           ELSE IF rarities.tag # "ok"
           THEN [tag |-> rarities.tag, val |-> <<>>, hash_calls |-> i - 1,
                 unwrap_err |-> FALSE]
           ELSE IF hashes[i] = "err"
           THEN [tag |-> "panic", val |-> <<>>, hash_calls |-> i, unwrap_err |-> TRUE]
           ELSE for_ranges(ranges, hashes, i + 1,
                  Append(sat_ranges,
                         [start |-> range[1], end |-> range[2],
                          block_rarities |-> rarities.val,
                          block_height |-> Height(range[1]),
                          block_hash |-> hashes[i]]))

invalid_params(message) == [kind |-> "error", message |-> message, utxos |-> <<>>]
success(r) == [kind |-> "success", message |-> <<>>, utxos |-> r]
NoResponse == [kind |-> "none", message |-> <<>>, utxos |-> <<>>]

\* the two early returns with the parameters parsed before the index is asked
entry_error_params_first(sat_index, parsed) ==
  IF ~parsed THEN <<"params">>
  ELSE IF ~sat_index THEN <<"Sat index is not available">>
  ELSE <<>>

\* the two early returns before the loop, <<>> when the request passes:
\* has_sat_index, then parse_params
entry_error(sat_index, parsed) ==
  IF ~sat_index THEN <<"Sat index is not available">>
  ELSE IF ~parsed THEN <<"params">>
  ELSE <<>>

RpcEntry ==
  /\ pc = "entry"
  /\ IF entry_error(has_sat_index, params_ok) # <<>>
     THEN /\ response' = invalid_params(entry_error(has_sat_index, params_ok))
          /\ pc' = "done"
     ELSE /\ response' = response
          /\ pc' = "loop"
  /\ UNCHANGED <<has_sat_index, params_ok, utxos, pos, res, lookups, lookup_failure>>
  /\ UNCHANGED <<overflow_checks, palVars, aoVars, gbrVars, libVars>>

\* one turn of  for output in req.utxos
RpcOutput ==
  /\ pc = "loop"
  /\ pos <= Len(utxos)
  /\ LET output == utxos[pos]
     IN  IF ~from_str_ok(output)
         THEN /\ response' = invalid_params(<<"outpoint", output>>)
              /\ pc' = "done"
              /\ UNCHANGED <<pos, res, lookups, lookup_failure>>
         ELSE LET list == index_list(output)
              IN  IF list.tag = "err"
                  THEN /\ response' = invalid_params(<<"index", output>>)
                       /\ pc' = "done"
                       /\ lookups' = lookups + 1
                       /\ lookup_failure' = <<"index", output>>
                       /\ UNCHANGED <<pos, res>>
                  ELSE \E hashes \in [1..Len(list.val) -> BLOCK_HASH_ANSWERS] :
                         \E r \in {for_ranges(list.val, hashes, 1, <<>>)} :
                             /\ lookups' = lookups + 1 + r.hash_calls
                             /\ lookup_failure' = IF r.unwrap_err
                                                  THEN <<"block_hash", output>>
                                                  ELSE lookup_failure
                             /\ IF r.tag = "ok"
                                THEN /\ res' = Append(res,
                                          [utxo |-> output, sat_ranges |-> r.val,
                                           rare_sats |-> rare_sats_from_outpoint(
                                             [i \in 1..Len(r.val) |->
                                                <<r.val[i].start, r.val[i].end>>])])
                                     /\ pos' = pos + 1
                                     /\ UNCHANGED <<response, pc>>
                                ELSE IF r.tag = "err"
                                THEN /\ response' = invalid_params(r.val)
                                     /\ pc' = "done"
                                     /\ UNCHANGED <<pos, res>>
                                ELSE /\ pc' = "crashed"
                                     /\ UNCHANGED <<pos, res, response>>
  /\ UNCHANGED <<has_sat_index, params_ok, utxos>>
  /\ UNCHANGED <<overflow_checks, palVars, aoVars, gbrVars, libVars>>

\* Ok(JsonRpcResponse::success(answer_id, res))
RpcRespond ==
  /\ pc = "loop"
  /\ pos > Len(utxos)
  /\ response' = success(res)
  /\ pc' = "done"
  /\ UNCHANGED <<has_sat_index, params_ok, utxos, pos, res, lookups, lookup_failure>>
  /\ UNCHANGED <<overflow_checks, palVars, aoVars, gbrVars, libVars>>

---------------------------------------------------------------------------
(* The calls that are not running in a specification stay idle *)

PalIdle == pal_lo = 0 /\ pal_hi = 0 /\ pal_out = <<>> /\ pal_done = FALSE
AoIdle  == /\ ao_start = 0 /\ ao_end = 0 /\ ao_done = {}
           /\ ao_alpha = Ok(<<>>) /\ ao_omega = Ok(<<>>)
GbrIdle == /\ q_start = 0 /\ q_end = 0 /\ gbr_pc = "idle" /\ kind_idx = 1
           /\ block_rarities = <<>> /\ pal_calls = 0
RpcIdle == /\ has_sat_index = FALSE /\ params_ok = FALSE /\ utxos = <<>>
           /\ pc = "idle" /\ pos = 1 /\ res = <<>> /\ response = NoResponse /\ lookups = 0
           /\ lookup_failure = <<>>
TokIdle == tok_kind = "" /\ tok_text = "" /\ tok_origin = "" /\ tok_parsed = [tag |-> "none", val |-> ""]
IspIdle == isp_n = 0 /\ isp_out = FALSE /\ isp_done = FALSE
LazyIdle == /\ once_state = "" /\ cell_set = FALSE /\ cell = <<>> /\ builds = 0
            /\ th_pc = <<>> /\ th_left = <<>> /\ th_i = <<>> /\ th_map = <<>> /\ th_seen = <<>>
EngineIdle == overflow_checks = FALSE /\ PalIdle /\ AoIdle /\ GbrIdle /\ RpcIdle
SatIdle == sat_n = 0 /\ sat_pizza = FALSE /\ sat_rarities = <<>> /\ sat_chunks = <<>> /\ sat_done = {}
LibIdle == TokIdle /\ IspIdle /\ LazyIdle /\ SatIdle

RECURSIVE seqs_upto(_, _)
seqs_upto(S, n) ==
  IF n = 0 THEN {<<>>}
  ELSE seqs_upto(S, n - 1) \cup
       {Append(q, x) : q \in {t \in seqs_upto(S, n - 1) : Len(t) = n - 1}, x \in S}

\* a getSatRanges request arrives
Init ==
  /\ overflow_checks \in BOOLEAN
  /\ PalIdle /\ AoIdle /\ GbrIdle /\ LibIdle
  /\ has_sat_index \in BOOLEAN
  /\ params_ok \in BOOLEAN
  /\ utxos \in seqs_upto(REFERENCES, MaxUtxos)
  /\ pc = "entry" /\ pos = 1 /\ res = <<>> /\ response = NoResponse /\ lookups = 0
  /\ lookup_failure = <<>>

Next == RpcEntry \/ RpcOutput \/ RpcRespond

Spec == Init /\ [][Next]_vars

---------------------------------------------------------------------------
(* get_palindromes_from_sat_range on its own *)

\* the lower bounds 0..MaxPalLo and the widths 0..MaxPalSpan are all tried,
\* with a few wider ranges around the digit-length boundaries
MaxPalLo == 120
MaxPalSpan == 60

PAL_LOWS == (0..MaxPalLo) \cup {989, 998, 999, 1000, 1001, 9899, 9989, 9999, 10000, 10001, 99999}
PAL_SPANS == (0..MaxPalSpan) \cup {99, 100, 101, 222, 1000, 1100}

PalInit ==
  /\ overflow_checks = FALSE
  /\ pal_lo \in PAL_LOWS
  /\ pal_hi \in {pal_lo + d : d \in PAL_SPANS}
  /\ pal_out = <<>> /\ pal_done = FALSE
  /\ AoIdle /\ GbrIdle /\ RpcIdle /\ LibIdle

PalCall ==
  /\ ~pal_done
  /\ pal_out' = get_palindromes_from_sat_range(pal_lo, pal_hi)
  /\ pal_done' = TRUE
  /\ UNCHANGED <<pal_lo, pal_hi, overflow_checks, aoVars, gbrVars, rpcVars, libVars>>

PalNext == PalCall

PalSpec == PalInit /\ [][PalNext]_vars

---------------------------------------------------------------------------
(* get_alpha_from_sat_range and get_omega_from_sat_range on their own *)

\* the bounds lie within MaxCoins whole coins
MaxCoins == 3

AO_POINTS ==
  {k * COIN_VALUE + d : k \in 0..MaxCoins, d \in {0, 1, 2, 50, COIN_VALUE - 1}}

AoInit ==
  /\ overflow_checks \in BOOLEAN
  /\ ao_start \in AO_POINTS
  /\ ao_end \in {e \in AO_POINTS : ao_start < e}
  /\ ao_alpha = Ok(<<>>) /\ ao_omega = Ok(<<>>) /\ ao_done = {}
  /\ PalIdle /\ GbrIdle /\ RpcIdle /\ LibIdle

AlphaCall ==
  /\ "alpha" \notin ao_done
  /\ ao_alpha' = get_alpha_from_sat_range(ao_start, ao_end)
  /\ ao_done' = ao_done \cup {"alpha"}
  /\ UNCHANGED <<ao_start, ao_end, ao_omega, overflow_checks, palVars, gbrVars, rpcVars, libVars>>

OmegaCall ==
  /\ "omega" \notin ao_done
  /\ ao_omega' = get_omega_from_sat_range(ao_start, ao_end)
  /\ ao_done' = ao_done \cup {"omega"}
  /\ UNCHANGED <<ao_start, ao_end, ao_alpha, overflow_checks, palVars, gbrVars, rpcVars, libVars>>

AoNext == AlphaCall \/ OmegaCall

AoSpec == AoInit /\ [][AoNext]_vars

---------------------------------------------------------------------------
(* One call of get_block_rarities, one kind of the list per step *)

\* the query bounds are taken pairwise from each of these sets
WINDOWS ==
  { {0, 1, 2, COIN_VALUE - 1, COIN_VALUE, COIN_VALUE + 1, 250},
    {SUBSIDY - 2, SUBSIDY - 1, SUBSIDY, SUBSIDY + 1},
    {1100, 1111, 1112, 1221, 1222},
    {131130, 131131, 131132, 112211, 112212},
    {450 * COIN_VALUE - 1, 450 * COIN_VALUE, 451 * COIN_VALUE - 1, 451 * COIN_VALUE,
     451 * COIN_VALUE + 1, 460 * COIN_VALUE - 10, 460 * COIN_VALUE - 1, 460 * COIN_VALUE,
     460 * COIN_VALUE + 1, 460 * COIN_VALUE + 10},
    {78 * SUBSIDY + 1, 78 * SUBSIDY + 2},
    {286 * SUBSIDY + 1, 286 * SUBSIDY + 2},
    {666 * SUBSIDY + 1, 666 * SUBSIDY + 2},
    {1001 * SUBSIDY - 2, 1001 * SUBSIDY, 1001 * SUBSIDY + 1, 1001 * SUBSIDY + 3},
    {32412 * SUBSIDY + 1, 32412 * SUBSIDY + 2},
    {204589006, 204589007, 204589008, 204589010, 204589017, 204589019, 204589046},
    {204589994, 204589999, 204590000, 204590001},
    {500438693, 500438695, 500438999, 500439000, 500439001},
    {500440005, 500440010, 500440015, 500440020, 500440025, 500440035, 500440040, 500440045} }

QUERIES == UNION {W \X W : W \in WINDOWS}

GbrInit ==
  /\ overflow_checks \in BOOLEAN
  /\ \E q \in QUERIES : q_start = q[1] /\ q_end = q[2]
  /\ gbr_pc = "entry" /\ kind_idx = 1 /\ block_rarities = <<>> /\ pal_calls = 0
  /\ PalIdle /\ AoIdle /\ RpcIdle /\ LibIdle

\* the two checks before the loop
GbrCheckRange ==
  /\ gbr_pc = "entry"
  /\ gbr_pc' = IF range_error(q_start, q_end) # "" THEN "err" ELSE "loop"
  /\ UNCHANGED <<q_start, q_end, kind_idx, block_rarities, pal_calls>>
  /\ UNCHANGED <<overflow_checks, palVars, aoVars, rpcVars, libVars>>

\* the enumerator run again for each kind made from its result
enumerates_per_refinement(block_rarity) ==
  block_rarity \in {"Palindrome", "PerfectPalinception", "UniformPalinception",
                    "PaliblockPalindrome"}

\* the arms of get_block_rarity_chunks that call get_palindromes_from_sat_range:
\* the Palindrome arm alone; the three kinds made from its result fall to
\* the arm that ignores them
enumerates(block_rarity) == block_rarity = "Palindrome"

\* one turn of the loop
GbrEvaluate ==
  /\ gbr_pc = "loop"
  /\ kind_idx <= Len(EVALUATION_LIST)
  /\ LET rarities == get_block_rarity_chunks(EVALUATION_LIST[kind_idx], q_start, q_end)
     IN  IF rarities.tag = "ok"
         THEN /\ block_rarities' = push_non_empty(block_rarities, rarities.val)
              /\ kind_idx' = kind_idx + 1
              /\ gbr_pc' = gbr_pc
         ELSE /\ gbr_pc' = rarities.tag
              /\ UNCHANGED <<block_rarities, kind_idx>>
  /\ pal_calls' = IF enumerates(EVALUATION_LIST[kind_idx]) THEN pal_calls + 1 ELSE pal_calls
  /\ UNCHANGED <<q_start, q_end>>
  /\ UNCHANGED <<overflow_checks, palVars, aoVars, rpcVars, libVars>>

\* Ok(block_rarities)
GbrReturn ==
  /\ gbr_pc = "loop"
  /\ kind_idx > Len(EVALUATION_LIST)
  /\ gbr_pc' = "ok"
  /\ UNCHANGED <<q_start, q_end, kind_idx, block_rarities, pal_calls>>
  /\ UNCHANGED <<overflow_checks, palVars, aoVars, rpcVars, libVars>>

GbrNext == GbrCheckRange \/ GbrEvaluate \/ GbrReturn

GbrSpec == GbrInit /\ [][GbrNext]_vars

---------------------------------------------------------------------------
(* block_rarity.rs: BlockRarity as text *)

\* enum BlockRarity
BlockRarity ==
  {"Vintage", "Nakamoto", "FirstTransaction", "Pizza", "Block9", "Block78", "Palindrome"}

\* Display with the token of Block78 written as that of Block9
fmt_block78_as_block9(self) ==
  CASE self = "Vintage"          -> "vintage"
    [] self = "Nakamoto"         -> "nakamoto"
    [] self = "FirstTransaction" -> "firsttransaction"
    [] self = "Palindrome"       -> "palindrome"
    [] self = "Pizza"            -> "pizza"
    [] self = "Block9"           -> "block9"
    [] self = "Block78"          -> "block9"

\* impl Display for BlockRarity
fmt(self) ==
  CASE self = "Vintage"          -> "vintage"
    [] self = "Nakamoto"         -> "nakamoto"
    [] self = "FirstTransaction" -> "firsttransaction"
    [] self = "Palindrome"       -> "palindrome"
    [] self = "Pizza"            -> "pizza"
    [] self = "Block9"           -> "block9"
    [] self = "Block78"          -> "block78"

\* Err(anyhow!("invalid rarity: {s}"))
Err(s) == [tag |-> "err", val |-> s]

\* impl FromStr for BlockRarity
from_str(s) ==
  CASE s = "vintage"          -> Ok("Vintage")
    [] s = "nakamoto"         -> Ok("Nakamoto")
    [] s = "firsttransaction" -> Ok("FirstTransaction")
    [] s = "palindrome"       -> Ok("Palindrome")
    [] s = "pizza"            -> Ok("Pizza")
    [] s = "block9"           -> Ok("Block9")
    [] s = "block78"          -> Ok("Block78")
    [] OTHER                  -> Err(s)

\* the strings handed to the parser: the seven tokens of the tests, the two
\* rejected strings of from_str_err, and strings close to a token
STRINGS ==
  {"vintage", "nakamoto", "firsttransaction", "pizza", "block9", "block78", "palindrome",
   "abc", "",
   "Vintage", "VINTAGE", "vintage ", " pizza", "block", "block7", "block780", "block-9",
   "first_transaction", "palindromes", "alpha"}

\* a kind and a string are given
TokInit ==
  /\ tok_kind \in BlockRarity
  /\ tok_text \in STRINGS
  /\ tok_origin = "input"
  /\ tok_parsed = [tag |-> "none", val |-> ""]
  /\ EngineIdle /\ IspIdle /\ LazyIdle /\ SatIdle

\* kind.to_string(): the text is now the token of the kind
TokToString ==
  /\ tok_origin = "input"
  /\ tok_parsed.tag = "none"
  /\ tok_text' = fmt(tok_kind)
  /\ tok_origin' = "fmt"
  /\ UNCHANGED <<tok_kind, tok_parsed>>
  /\ UNCHANGED <<engineVars, ispVars, lazyVars, satVars>>

\* text.parse::<BlockRarity>()
TokParse ==
  /\ tok_parsed.tag = "none"
  /\ tok_parsed' = from_str(tok_text)
  /\ UNCHANGED <<tok_kind, tok_text, tok_origin>>
  /\ UNCHANGED <<engineVars, ispVars, lazyVars, satVars>>

TokNext == TokToString \/ TokParse

TokSpec == TokInit /\ [][TokNext]_vars

---------------------------------------------------------------------------
(* block_rarity.rs: the lazy static PIZZA_RANGE_MAP.                       *)
(* lazy_static! keeps the value in a cell guarded by a std::sync::Once:    *)
(* the first thread to dereference the static runs the initializer, the    *)
(* threads that arrive while it runs block until it has completed, and     *)
(* every later dereference reads the cell.                                 *)

MaxThreads == 2
MaxAccesses == 2

Threads == 1..MaxThreads

\* HashMap::new()
EmptyMap == [h \in {} |-> <<>>]

\* the push at the front of the bucket instead of its back
entry_push_front(map, range) ==
  LET block_height == range[1] \div (50 * COIN_VALUE)
  IN  [h \in DOMAIN map \cup {block_height} |->
         IF h # block_height THEN map[h]
         ELSE <<range>> \o (IF h \in DOMAIN map THEN map[h] ELSE <<>>)]

\* one turn of the initializer's loop:
\*   map.entry(block_height).or_insert(vec![]).push((start, end))
entry_push(map, range) ==
  LET block_height == range[1] \div (50 * COIN_VALUE)
  IN  [h \in DOMAIN map \cup {block_height} |->
         IF h # block_height THEN map[h]
         ELSE Append(IF h \in DOMAIN map THEN map[h] ELSE <<>>, range)]

\* a Once that lets a thread in while another runs the initializer
once_may_run_unguarded(state) == state # "complete"

\* Once::call_once runs the closure only from the incomplete state
once_may_run(state) == state = "incomplete"

\* the program starts: nothing has touched the static
LazyInit ==
  /\ once_state = "incomplete" /\ cell_set = FALSE /\ cell = EmptyMap /\ builds = 0
  /\ th_pc = [t \in Threads |-> "idle"]
  /\ th_left \in [Threads -> 1..MaxAccesses]
  /\ th_i = [t \in Threads |-> 0]
  /\ th_map = [t \in Threads |-> EmptyMap]
  /\ th_seen = [t \in Threads |-> {}]
  /\ EngineIdle /\ TokIdle /\ IspIdle /\ SatIdle

\* a thread dereferences PIZZA_RANGE_MAP: Once::call_once
LazyDeref(t) ==
  /\ th_pc[t] = "idle" /\ th_left[t] > 0
  /\ IF once_state = "complete"
     THEN /\ th_pc' = [th_pc EXCEPT ![t] = "read"]
          /\ UNCHANGED <<once_state, builds, th_i, th_map>>
     ELSE IF once_may_run(once_state)
     THEN /\ once_state' = "running"
          /\ builds' = builds + 1
          /\ th_pc' = [th_pc EXCEPT ![t] = "build"]
          /\ th_i' = [th_i EXCEPT ![t] = 0]
          /\ th_map' = [th_map EXCEPT ![t] = EmptyMap]
     ELSE /\ th_pc' = [th_pc EXCEPT ![t] = "wait"]
          /\ UNCHANGED <<once_state, builds, th_i, th_map>>
  /\ UNCHANGED <<cell_set, cell, th_left, th_seen>>
  /\ UNCHANGED <<engineVars, tokVars, ispVars, satVars>>

\* the initializer: for (start, end) in PIZZA_RANGES
LazyBuildStep(t) ==
  /\ th_pc[t] = "build" /\ th_i[t] < Len(PIZZA_RANGES)
  /\ th_map' = [th_map EXCEPT ![t] = entry_push(th_map[t], PIZZA_RANGES[th_i[t] + 1])]
  /\ th_i' = [th_i EXCEPT ![t] = th_i[t] + 1]
  /\ UNCHANGED <<once_state, cell_set, cell, builds, th_pc, th_left, th_seen>>
  /\ UNCHANGED <<engineVars, tokVars, ispVars, satVars>>

\* the initializer returns map: the cell is set and the Once completes
LazyBuildFinish(t) ==
  /\ th_pc[t] = "build" /\ th_i[t] = Len(PIZZA_RANGES)
  /\ cell' = th_map[t] /\ cell_set' = TRUE
  /\ once_state' = "complete"
  /\ th_pc' = [th_pc EXCEPT ![t] = "read"]
  /\ UNCHANGED <<builds, th_left, th_i, th_map, th_seen>>
  /\ UNCHANGED <<engineVars, tokVars, ispVars, satVars>>

\* a blocked thread is released by the completion
LazyWake(t) ==
  /\ th_pc[t] = "wait" /\ once_state = "complete"
  /\ th_pc' = [th_pc EXCEPT ![t] = "read"]
  /\ UNCHANGED <<once_state, cell_set, cell, builds, th_left, th_i, th_map, th_seen>>
  /\ UNCHANGED <<engineVars, tokVars, ispVars, satVars>>

\* the query on the table: contains_key / get
LazyRead(t) ==
  /\ th_pc[t] = "read"
  /\ th_seen' = [th_seen EXCEPT ![t] = th_seen[t] \cup {cell}]
  /\ th_left' = [th_left EXCEPT ![t] = th_left[t] - 1]
  /\ th_pc' = [th_pc EXCEPT ![t] = "idle"]
  /\ UNCHANGED <<once_state, cell_set, cell, builds, th_i, th_map>>
  /\ UNCHANGED <<engineVars, tokVars, ispVars, satVars>>

LazyNext ==
  \E t \in Threads :
    LazyDeref(t) \/ LazyBuildStep(t) \/ LazyBuildFinish(t) \/ LazyWake(t) \/ LazyRead(t)

LazySpec == LazyInit /\ [][LazyNext]_vars

---------------------------------------------------------------------------
(* is_palindrome on its own *)

\* every number up to MaxIspN is tried, and longer ones around it: numbers
\* that are palindromes, numbers with equal first and last digit that are
\* none, the ends of the digit lengths
MaxIspN == 1200

ISP_NUMBERS ==
  (0..MaxIspN) \cup
  {9999, 10001, 10101, 10201, 12321, 12331, 12341, 13321, 99999,
   100001, 123321, 123421, 120021, 120121, 1234321, 1234421, 1230321,
   12344321, 12345321, 10000001, 10011001, 123454321, 123464321, 123454311,
   999999999, 1000000001, 1000110001, 1000000011, U64_MODULUS - 1}

IspInit ==
  /\ isp_n \in ISP_NUMBERS
  /\ isp_out = FALSE /\ isp_done = FALSE
  /\ EngineIdle /\ TokIdle /\ LazyIdle /\ SatIdle

IsPalindromeCall ==
  /\ ~isp_done
  /\ isp_out' = is_palindrome(isp_n)
  /\ isp_done' = TRUE
  /\ UNCHANGED isp_n
  /\ UNCHANGED <<engineVars, tokVars, lazyVars, satVars>>

IspNext == IsPalindromeCall

IspSpec == IspInit /\ [][IspNext]_vars

---------------------------------------------------------------------------
(* block_rarity.rs: one sat classified point-wise, and as the range (n, n + 1) *)

MAX_PIZZA_BLOCK_HEIGHT == 56788

\* the test of one interval with its end taken in
in_range_closed_end(n, ranges) ==
  \E i \in 1..Len(ranges) : n >= ranges[i][1] /\ n <= ranges[i][2]

\* for range in ranges { if n >= &range.0 && n < &range.1 { return true } }
in_range(n, ranges) ==
  \E i \in 1..Len(ranges) : n >= ranges[i][1] /\ n < ranges[i][2]

\* contains_key on the height of the sat, then in_range on that bucket
is_pizza_sat(sat) ==
  LET block_height == Height(sat)
  IN  IF block_height \in DOMAIN PIZZA_RANGE_MAP
      THEN in_range(sat, PIZZA_RANGE_MAP[block_height])
      ELSE FALSE

\* the list with x pushed when cond holds
push_if(list, cond, x) == IF cond THEN Append(list, x) ELSE list

\* the point-wise classifier with Vintage ending one block early
from_sat_vintage_strict(sat) ==
  LET block_height == Height(sat)
      after_nakamoto ==
        push_if(push_if(<<>>, block_height < VINTAGE_BLOCK_HEIGHT, "Vintage"),
                block_height \in NAKAMOTO_BLOCK_HEIGHTS, "Nakamoto")
      after_pizza == push_if(after_nakamoto, is_pizza_sat(sat), "Pizza")
      after_blocks ==
        IF block_height = BLOCK9_BLOCK_HEIGHT
        THEN Append(push_if(after_pizza,
                            sat >= FIRST_TRANSACTION_SAT_RANGE[1]
                              /\ sat < FIRST_TRANSACTION_SAT_RANGE[2],
                            "FirstTransaction"),
                    "Block9")
        ELSE push_if(after_pizza, block_height = BLOCK78_BLOCK_HEIGHT, "Block78")
      res_guarded == IF block_height <= MAX_PIZZA_BLOCK_HEIGHT THEN after_blocks ELSE <<>>
  IN  push_if(res_guarded, is_palindrome(sat), "Palindrome")

\* impl From<Sat> for Vec<BlockRarity>: the kinds of one sat, in push order
from_sat(sat) ==
  LET block_height == Height(sat)
      after_nakamoto ==
        push_if(push_if(<<>>, block_height <= VINTAGE_BLOCK_HEIGHT, "Vintage"),
                block_height \in NAKAMOTO_BLOCK_HEIGHTS, "Nakamoto")
      after_pizza == push_if(after_nakamoto, is_pizza_sat(sat), "Pizza")
      after_blocks ==
        IF block_height = BLOCK9_BLOCK_HEIGHT
        THEN Append(push_if(after_pizza,
                            sat >= FIRST_TRANSACTION_SAT_RANGE[1]
                              /\ sat < FIRST_TRANSACTION_SAT_RANGE[2],
                            "FirstTransaction"),
                    "Block9")
        ELSE push_if(after_pizza, block_height = BLOCK78_BLOCK_HEIGHT, "Block78")
      res_guarded == IF block_height <= MAX_PIZZA_BLOCK_HEIGHT THEN after_blocks ELSE <<>>
  IN  push_if(res_guarded, is_palindrome(sat), "Palindrome")

\* the kinds both classifiers know
POINT_KINDS ==
  {"Vintage", "Nakamoto", "FirstTransaction", "Pizza", "Block9", "Block78", "Palindrome"}

\* the sats tried: both sides of both ends of every pair of PIZZA_RANGES,
\* both sides of the seams of the blocks that hold a pair and of the blocks
\* the height tests name, the window of the first transaction, the sats of
\* the tests (divided by SatScale), palindromes and their neighbours
PIZZA_EDGES ==
  UNION {{PIZZA_RANGES[i][1] - 1, PIZZA_RANGES[i][1],
          PIZZA_RANGES[i][2] - 1, PIZZA_RANGES[i][2]} : i \in 1..Len(PIZZA_RANGES)}

SEAM_HEIGHTS ==
  DOMAIN PIZZA_RANGE_MAP
    \cup NAKAMOTO_BLOCK_HEIGHTS
    \cup {1, BLOCK9_BLOCK_HEIGHT, BLOCK78_BLOCK_HEIGHT, VINTAGE_BLOCK_HEIGHT,
          VINTAGE_BLOCK_HEIGHT + 1, MAX_PIZZA_BLOCK_HEIGHT, MAX_PIZZA_BLOCK_HEIGHT + 1}

SEAMS ==
  UNION {{h * SUBSIDY - 1, h * SUBSIDY, (h + 1) * SUBSIDY - 1, (h + 1) * SUBSIDY} :
           h \in SEAM_HEIGHTS}

\* every sat up to this one is tried
MaxSmallSat == 130

SATS ==
  PIZZA_EDGES \cup SEAMS
    \cup (0..MaxSmallSat)
    \cup {450 * COIN_VALUE + 1, 451 * COIN_VALUE, 454 * COIN_VALUE + 54,
          460 * COIN_VALUE - 1, 460 * COIN_VALUE, 460 * COIN_VALUE + 1, 46064,
          1000, 1001, 1430418, 45017, 392664, 393393, 1430341, 5000005,
          263080763, 874357828, 874353478, 120488565, 120488021, 120475000,
          120495000, 204589179, 204589184, 204589186, 204589199, 204589182,
          204589185, 204589189, 204589200, 204585402, 283939382, 283949382,
          463080763, 463080364, 12344321, 12344322, 99999999, 100000001}

SatInit ==
  /\ sat_n \in SATS
  /\ sat_pizza = FALSE /\ sat_rarities = <<>> /\ sat_chunks = <<>> /\ sat_done = {}
  /\ EngineIdle /\ TokIdle /\ IspIdle /\ LazyIdle

\* is_pizza_sat(&Sat(n))
IsPizzaSatCall ==
  /\ "is_pizza_sat" \notin sat_done
  /\ sat_pizza' = is_pizza_sat(sat_n)
  /\ sat_done' = sat_done \cup {"is_pizza_sat"}
  /\ UNCHANGED <<sat_n, sat_rarities, sat_chunks>>
  /\ UNCHANGED <<engineVars, tokVars, ispVars, lazyVars>>

\* Sat(n).block_rarities()
BlockRaritiesCall ==
  /\ "from" \notin sat_done
  /\ sat_rarities' = from_sat(sat_n)
  /\ sat_done' = sat_done \cup {"from"}
  /\ UNCHANGED <<sat_n, sat_pizza, sat_chunks>>
  /\ UNCHANGED <<engineVars, tokVars, ispVars, lazyVars>>

\* get_block_rarity_chunks(kind, n, n + 1) for each kind both classifiers know
RarityChunksCall ==
  /\ "chunks" \notin sat_done
  /\ sat_chunks' = [kind \in POINT_KINDS |-> get_block_rarity_chunks(kind, sat_n, sat_n + 1)]
  /\ sat_done' = sat_done \cup {"chunks"}
  /\ UNCHANGED <<sat_n, sat_pizza, sat_rarities>>
  /\ UNCHANGED <<engineVars, tokVars, ispVars, lazyVars>>

SatNext == IsPizzaSatCall \/ BlockRaritiesCall \/ RarityChunksCall

SatSpec == SatInit /\ [][SatNext]_vars

---------------------------------------------------------------------------
(* Properties *)

is_reversal(n) == to_string(n) = rev(to_string(n))

\* every integer of lo..hi, filtered
brute_force(lo, hi) ==
  SelectSeq([i \in 1..(hi - lo + 1) |-> lo + i - 1], is_reversal)

\* C1: for every inclusive range lo <= hi the enumerator returns exactly the
\* integers of the range whose decimal string is its own reversal, in the
\* order of a brute-force scan.
C1_EnumeratorIsBruteForce ==
  pal_done => pal_out = brute_force(pal_lo, pal_hi)

\* a call whose range spans three digit lengths and holds palindromes of each
C1_Witness ==
  /\ pal_done
  /\ Len(to_string(pal_hi)) >= Len(to_string(pal_lo)) + 2
  /\ Len(pal_out) >= 3

\* --- reading a report

kinds_of(report) == [i \in 1..Len(report) |-> report[i].block_rarity]

\* the chunks a report lists for a kind; none when the kind is absent
chunks_of(report, kind) ==
  IF \E i \in 1..Len(report) : report[i].block_rarity = kind
  THEN report[CHOOSE i \in 1..Len(report) : report[i].block_rarity = kind].chunks
  ELSE <<>>

position(list, x) == CHOOSE i \in 1..Len(list) : list[i] = x

\* the loop has passed this kind of the evaluation list
evaluated(kind) ==
  /\ gbr_pc \in {"loop", "ok", "panic", "abort"}
  /\ kind_idx > position(EVALUATION_LIST, kind)

stored(kind, block_height) ==
  LET map == CASE kind = "Pizza" -> PIZZA_RANGE_MAP
               [] kind = "Legacy" -> LEGACY_RANGE_MAP
               [] kind = "Hitman" -> HITMAN_RANGE_MAP
  IN  IF block_height \in DOMAIN map THEN map[block_height] ELSE <<>>

covers(intervals, n) == \E i \in 1..Len(intervals) : intervals[i][1] <= n /\ n < intervals[i][2]

\* C2: for a curated kind and a valid query [s,e), the chunks reported
\* cover exactly the sats of [s,e) that lie in an interval stored for the
\* query's block height; they are non-empty, ascending and disjoint; a query
\* inside one interval yields exactly [(s,e)].
C2_ChunksAreTheIntersection ==
  \A kind \in {"Pizza", "Legacy", "Hitman"} :
    evaluated(kind) =>
      LET chunks == chunks_of(block_rarities, kind)
          intervals == stored(kind, Height(q_start))
      IN  /\ \A n \in q_start..(q_end - 1) : covers(chunks, n) <=> covers(intervals, n)
          /\ \A i \in 1..Len(chunks) :
               /\ q_start <= chunks[i][1] /\ chunks[i][1] < chunks[i][2]
               /\ chunks[i][2] <= q_end
          /\ \A i \in 1..(Len(chunks) - 1) : chunks[i][2] <= chunks[i + 1][1]
          /\ (\E i \in 1..Len(intervals) :
                intervals[i][1] <= q_start /\ q_end <= intervals[i][2])
             => chunks = << <<q_start, q_end>> >>

\* a query that cuts into one stored interval and reaches a later one
C2_Witness ==
  /\ evaluated("Pizza")
  /\ Len(chunks_of(block_rarities, "Pizza")) >= 2
  /\ \E i \in 1..Len(stored("Pizza", Height(q_start))) :
       stored("Pizza", Height(q_start))[i][1] < q_start
       /\ q_start < stored("Pizza", Height(q_start))[i][2]

\* C3 as stated: the call fails whenever start >= end or start and end lie
\* in different blocks.
C3_EndpointHeights ==
  (gbr_pc # "entry" /\ (q_start >= q_end \/ Height(q_start) # Height(q_end)))
    => gbr_pc = "err"

\* C3, amended: the call fails, and builds no report, whenever start >= end
\* or start and the last sat of the range, end - 1, lie in different blocks.
C3_LastSatHeight ==
  (gbr_pc # "entry" /\ (q_start >= q_end \/ Height(q_start) # Height(q_end - 1)))
    => (gbr_pc = "err" /\ block_rarities = <<>> /\ kind_idx = 1)

\* a well-ordered range that spans two blocks was rejected
C3_Witness ==
  /\ gbr_pc = "err"
  /\ q_start < q_end
  /\ Height(q_start) # Height(q_end - 1)

\* C4: in a returned report every chunk (lo,hi) of every kind satisfies
\* start <= lo < hi <= end.
C4_ChunksInsideQuery ==
  gbr_pc = "ok" =>
    \A i \in 1..Len(block_rarities) :
      \A j \in 1..Len(block_rarities[i].chunks) :
        LET chunk == block_rarities[i].chunks[j]
        IN  q_start <= chunk[1] /\ chunk[1] < chunk[2] /\ chunk[2] <= q_end

\* a report of a block 9 range that reaches past the first coin: Block9_450
\* is clipped at its end
C4_Witness ==
  /\ gbr_pc = "ok"
  /\ q_end > BLOCK9_450_SAT_RANGE[2]
  /\ chunks_of(block_rarities, "Block9_450") = << <<q_start, BLOCK9_450_SAT_RANGE[2]>> >>

\* --- getSatRanges

\* what makes the handler answer a reference with an error, "" when
\* nothing does: a malformed outpoint, an index error, a rejected range
failure_of(output) ==
  IF ~from_str_ok(output) THEN <<"outpoint", output>>
  ELSE IF index_list(output).tag = "err" THEN <<"index", output>>
  ELSE LET ranges == index_list(output).val
           rejected == {i \in 1..Len(ranges) : range_error(ranges[i][1], ranges[i][2]) # ""}
       IN  IF rejected = {} THEN <<>>
           ELSE LET i == CHOOSE k \in rejected : \A m \in rejected : k <= m
                IN  <<"range", range_error(ranges[i][1], ranges[i][2]),
                      ranges[i][1], ranges[i][2]>>

failing(request) == {i \in 1..Len(request) : failure_of(request[i]) # <<>>}

first_failing(request) == CHOOSE i \in failing(request) : \A m \in failing(request) : i <= m

\* C5: when a reference of the request fails, the request ends with a
\* single error that carries no result, and the error is that of the first
\* failing reference in request order.
C5_AllOrNothing ==
  (pc \in {"done", "crashed"} /\ has_sat_index /\ params_ok /\ failing(utxos) # {})
    => response = invalid_params(failure_of(utxos[first_failing(utxos)]))

\* --- the enumerators of unit boundaries

\* the integers of start..(end - 1) that satisfy P, ascending
boundaries(start, end, P(_)) ==
  SelectSeq([i \in 1..(end - start) |-> start + i - 1], P)

is_alpha(v) == v % COIN_VALUE = 0
is_omega(v) == (v + 1) % COIN_VALUE = 0

\* C6: for every start < end, get_omega_from_sat_range returns exactly the
\* values v of [start,end) with (v+1) mod U = 0, in descending order, from
\* floor(end/U)*U - 1 down.
C6_OmegaExact ==
  "omega" \in ao_done => ao_omega = Ok(rev(boundaries(ao_start, ao_end, is_omega)))

\* C7: for every start < end, start = 0 included, get_alpha_from_sat_range
\* returns exactly the values v of [start,end) with v mod U = 0, in
\* ascending order, from ceil(start/U)*U up.
C7_AlphaExact ==
  "alpha" \in ao_done => ao_alpha = Ok(boundaries(ao_start, ao_end, is_alpha))

\* C8: get_block_rarities ends with a report or with an error, and with a
\* report on every range with start < end in one block; no evaluator
\* faults or runs away.
C8_ReportOrError ==
  /\ gbr_pc \in {"entry", "loop", "ok", "err"}
  /\ gbr_pc = "err" => (q_start >= q_end \/ Height(q_start) # Height(q_end - 1))

\* --- the shape of a report

\* what the evaluators produce for a kind over the whole list: the kind is
\* produced when some evaluator returns it with a chunk
produced(kind, start, end) ==
  \E i \in 1..Len(EVALUATION_LIST) :
    LET rarities == get_block_rarity_chunks(EVALUATION_LIST[i], start, end)
    IN  /\ rarities.tag = "ok"
        /\ \E j \in 1..Len(rarities.val) :
             rarities.val[j][1] = kind /\ Len(rarities.val[j][2]) # 0

\* the order C10 states
REPORT_ORDER ==
  <<"Vintage", "Nakamoto", "Block9", "Block9_450", "Block78", "FirstTransaction",
    "Pizza", "Palindrome", "PerfectPalinception", "UniformPalinception",
    "PaliblockPalindrome", "Alpha", "Omega", "Block286", "JPEG", "Legacy", "Hitman",
    "Block666">>

kinds_in(report) == {report[i].block_rarity : i \in 1..Len(report)}

\* C9: every entry of a returned report has a chunk; a kind is absent
\* exactly when its evaluator produced no chunk; a range that matches no
\* kind returns an empty report, not an error.
C9_NonEmptyEntries ==
  gbr_pc = "ok" =>
    /\ \A i \in 1..Len(block_rarities) : Len(block_rarities[i].chunks) # 0
    /\ \A kind \in {REPORT_ORDER[i] : i \in 1..Len(REPORT_ORDER)} :
         kind \in kinds_in(block_rarities) <=> produced(kind, q_start, q_end)
    /\ kinds_in(block_rarities) \subseteq {REPORT_ORDER[i] : i \in 1..Len(REPORT_ORDER)}

\* a valid range that matches no kind: the call returned the empty report
C9_Witness ==
  /\ gbr_pc = "ok"
  /\ block_rarities = <<>>
  /\ \A i \in 1..Len(REPORT_ORDER) : ~produced(REPORT_ORDER[i], q_start, q_end)

\* C10: the kinds of a report follow one fixed order; each report is a
\* subsequence of it.
C10_FixedOrder ==
  gbr_pc = "ok" =>
    /\ kinds_in(block_rarities) \subseteq {REPORT_ORDER[i] : i \in 1..Len(REPORT_ORDER)}
    /\ \A i \in 1..(Len(block_rarities) - 1) :
         position(REPORT_ORDER, block_rarities[i].block_rarity)
           < position(REPORT_ORDER, block_rarities[i + 1].block_rarity)

\* a report with a refinement of Palindrome, which the list names after
\* Omega, and with Alpha and Omega
C10_Witness ==
  /\ gbr_pc = "ok"
  /\ {"Palindrome", "UniformPalinception", "Alpha", "Omega"} \subseteq kinds_in(block_rarities)

---------------------------------------------------------------------------
(* The enumerator's output order *)

\* the significant digits (first half, middle digit included) of n
sig_digits_number(n) ==
  parse_u64(SubSeq(to_string(n), 1, (Len(to_string(n)) + 1) \div 2))

\* C11: for every inclusive range [lo, hi] with lo <= hi the list returned
\* by get_palindromes_from_sat_range is strictly ascending, hence without
\* a duplicate, also when the significant digits of the two bounds of a
\* sub-range are equal or adjacent
C11_StrictlyAscending ==
  pal_done => \A i \in 1..(Len(pal_out) - 1) : pal_out[i] < pal_out[i + 1]

\* two bounds of one digit length with adjacent significant digits, both
\* candidates inside the range
C11_Witness ==
  /\ pal_done
  /\ Len(to_string(pal_lo)) = Len(to_string(pal_hi))
  /\ sig_digits_number(pal_lo) + 1 = sig_digits_number(pal_hi)
  /\ Len(pal_out) = 2

---------------------------------------------------------------------------
(* Scenarios *)

\* the call has returned or faulted
ended == gbr_pc \in {"ok", "err", "panic", "abort"}

\* C12: the query [1, 2) succeeds, and its report includes Vintage with
\* the chunks [(1, 2)] and Palindrome with the chunks [(1, 2)]
C12_FirstSatReport ==
  (q_start = 1 /\ q_end = 2 /\ ended) =>
    /\ gbr_pc = "ok"
    /\ chunks_of(block_rarities, "Vintage") = << <<1, 2>> >>
    /\ chunks_of(block_rarities, "Palindrome") = << <<1, 2>> >>

\* the range lies in one block and has the seam 460 * COIN_VALUE strictly
\* inside, less than one coin away from both bounds
straddles_seam(start, end) ==
  /\ 459 * COIN_VALUE < start /\ start < 460 * COIN_VALUE
  /\ 460 * COIN_VALUE < end /\ end < 461 * COIN_VALUE

\* C13: for every query range that straddles the seam at 460 * COIN_VALUE
\* as above, the report's Alpha entry is exactly [(460*U, 460*U + 1)] and
\* its Omega entry is exactly [(460*U - 1, 460*U)]
C13_SeamReport ==
  (straddles_seam(q_start, q_end) /\ ended) =>
    /\ gbr_pc = "ok"
    /\ chunks_of(block_rarities, "Alpha")
         = << <<460 * COIN_VALUE, 460 * COIN_VALUE + 1>> >>
    /\ chunks_of(block_rarities, "Omega")
         = << <<460 * COIN_VALUE - 1, 460 * COIN_VALUE>> >>

\* a range around the seam, as in the test at rpc.rs:470
C13_Witness ==
  /\ gbr_pc = "ok"
  /\ q_start = 460 * COIN_VALUE - 10 /\ q_end = 460 * COIN_VALUE + 10
  /\ "Alpha" \in kinds_in(block_rarities) /\ "Omega" \in kinds_in(block_rarities)

---------------------------------------------------------------------------
(* getSatRanges and its collaborators *)

\* the references the index has no list for
unresolved(output) == from_str_ok(output) /\ index_list(output).tag = "none"

\* C14: a reference that the index cannot resolve makes the request end
\* with an error; no success response holds an entry with an empty range
\* list for such a reference
C14_UnknownReferenceFails ==
  response.kind = "success" =>
    \A i \in 1..Len(response.utxos) : ~unresolved(response.utxos[i].utxo)

\* C15: whenever index.list or index.block_hash returns an error, the
\* request ends with an invalid-parameters error response that carries the
\* message of that failure; it does not crash and does not succeed
C15_LookupFailureIsAnError ==
  lookup_failure # <<>> =>
    /\ pc = "done"
    /\ response = invalid_params(lookup_failure)

---------------------------------------------------------------------------
(* BlockRarity as text *)

\* the fixed token set
TOKENS == {fmt(k) : k \in BlockRarity}

\* C16: parsing the token that Display writes for a kind gives that kind
\* again, two kinds never share a token, and from_str fails for every
\* string outside the token set, the empty string included
C16_TokenRoundTrip ==
  /\ (tok_origin = "fmt" /\ tok_parsed.tag # "none") => tok_parsed = Ok(tok_kind)
  /\ tok_origin = "fmt" => \A k \in BlockRarity : fmt(k) = tok_text => k = tok_kind
  /\ (tok_parsed.tag # "none" /\ tok_text \notin TOKENS) => tok_parsed = Err(tok_text)

\* a token written and read back
C16_Witness ==
  /\ tok_origin = "fmt" /\ tok_kind = "Block78" /\ tok_parsed = Ok("Block78")

---------------------------------------------------------------------------
(* The curated table *)

\* C17: under any interleaving of concurrent first accesses to
\* PIZZA_RANGE_MAP the initializer runs at most once and every reader
\* observes the fully populated table only; once the table is set, no step
\* of any thread changes it
C17_BuiltOnceThenFrozen ==
  /\ [](/\ builds <= 1
        /\ \A t \in DOMAIN th_seen : th_seen[t] \subseteq {PIZZA_RANGE_MAP})
  /\ [][cell_set => (cell_set' /\ cell' = cell)]_vars

\* two first accesses met: one thread built the table and has read it, the
\* other one, which arrived during the construction, is still blocked
C17_Witness ==
  /\ builds = 1
  /\ \E t \in DOMAIN th_pc : th_seen[t] = {PIZZA_RANGE_MAP}
  /\ \E t \in DOMAIN th_pc : th_pc[t] = "wait"

\* ascending by start, pairwise disjoint, no interval empty
well_formed(intervals) ==
  /\ \A i \in 1..Len(intervals) : intervals[i][1] < intervals[i][2]
  /\ \A i \in 1..Len(intervals) : \A j \in (i + 1)..Len(intervals) :
       /\ intervals[i][1] < intervals[j][1]
       /\ intervals[i][2] <= intervals[j][1]

\* C18: in the table built from PIZZA_RANGES the intervals of every block
\* height are sorted ascending by start, pairwise non-overlapping as
\* half-open intervals, and each has start < end
C18_BucketsWellFormed ==
  cell_set => \A h \in DOMAIN cell : well_formed(cell[h])

\* the table is built and holds a height with several intervals
C18_Witness ==
  /\ cell_set
  /\ \E h \in DOMAIN cell : Len(cell[h]) > 100

---------------------------------------------------------------------------
(* The palindrome predicate *)

\* C19: is_palindrome(n) is true iff the decimal string of n equals its
\* own reversal; the comparison of the first with the last digit never
\* changes the answer
C19_PalindromeIsReversal ==
  isp_done => (isp_out <=> is_reversal(isp_n))

\* first and last digit agree and the number is no palindrome: the early
\* exit does not decide
C19_Witness ==
  /\ isp_done /\ ~isp_out
  /\ to_string(isp_n)[1] = to_string(isp_n)[Len(to_string(isp_n))]
  /\ Len(to_string(isp_n)) > 8

---------------------------------------------------------------------------
(* The refinements of a palindrome *)

\* the palindromes of the query range
matches == brute_force(q_start, q_end - 1)

in_chunks(report, kind, p) ==
  \E i \in 1..Len(chunks_of(report, kind)) : chunks_of(report, kind)[i] = <<p, p + 1>>

---------------------------------------------------------------------------
(* The kinds decided by the block height alone *)

HEIGHT_KINDS == {"Vintage", "Nakamoto", "Block9", "Block78", "Block286", "Block666", "JPEG"}

\* the predicate of the kind on a block height
height_predicate(kind, block_height) ==
  CASE kind = "Vintage"  -> block_height <= 1000
    [] kind = "Nakamoto" -> block_height \in NAKAMOTO_BLOCK_HEIGHTS
    [] kind = "Block9"   -> block_height = 9
    [] kind = "Block78"  -> block_height = 78
    [] kind = "Block286" -> block_height = 286
    [] kind = "Block666" -> block_height = 666
    [] kind = "JPEG"     -> block_height \in JPEG_BLOCK_HEIGHTS

\* C21: for each kind decided by the block height and every valid range
\* [s, e) of one block, the report contains the kind iff the predicate of
\* the kind holds for the height of s, and then its chunk list is [(s, e)]
C21_HeightKinds ==
  \A kind \in HEIGHT_KINDS :
    evaluated(kind) =>
      /\ kind \in kinds_in(block_rarities) <=> height_predicate(kind, Height(q_start))
      /\ kind \in kinds_in(block_rarities) =>
           chunks_of(block_rarities, kind) = << <<q_start, q_end>> >>

\* a block that is vintage, is one of Nakamoto's and has a kind of its own
C21_Witness ==
  /\ gbr_pc = "ok"
  /\ Height(q_start) = 286
  /\ kinds_in(block_rarities) \cap HEIGHT_KINDS = {"Vintage", "Nakamoto", "Block286"}

---------------------------------------------------------------------------
(* The kinds of block 9 decided by the sat offset *)

\* [start, end) cut to [lo, hi): one chunk, or none when nothing is left
intersection(start, end, lo, hi) ==
  IF max(start, lo) < min(end, hi) THEN << <<max(start, lo), min(end, hi)>> >> ELSE <<>>

\* C22: for every valid range [s, e) in block 9 the FirstTransaction entry
\* is the intersection of [s, e) with [450*U, 460*U) and the Block9_450
\* entry is the intersection of [s, e) with [450*U, 451*U), each absent when
\* the intersection is empty; a range inside the sub-range gets the whole
\* range as its chunk; at any other height neither kind is reported
C22_Block9SubRanges ==
  /\ evaluated("FirstTransaction") =>
       chunks_of(block_rarities, "FirstTransaction")
         = IF Height(q_start) = 9
           THEN intersection(q_start, q_end, 450 * COIN_VALUE, 460 * COIN_VALUE)
           ELSE <<>>
  /\ evaluated("Block9") =>
       chunks_of(block_rarities, "Block9_450")
         = IF Height(q_start) = 9
           THEN intersection(q_start, q_end, 450 * COIN_VALUE, 451 * COIN_VALUE)
           ELSE <<>>
  /\ gbr_pc = "ok" =>
       /\ "FirstTransaction" \in kinds_in(block_rarities)
            <=> chunks_of(block_rarities, "FirstTransaction") # <<>>
       /\ "Block9_450" \in kinds_in(block_rarities)
            <=> chunks_of(block_rarities, "Block9_450") # <<>>

\* a range of block 9 that leaves the first coin and the window of the
\* first transaction: both entries are cut
C22_Witness ==
  /\ gbr_pc = "ok"
  /\ q_start < 451 * COIN_VALUE /\ q_end > 460 * COIN_VALUE
  /\ chunks_of(block_rarities, "FirstTransaction") = << <<q_start, 460 * COIN_VALUE>> >>
  /\ chunks_of(block_rarities, "Block9_450") = << <<q_start, 451 * COIN_VALUE>> >>

\* a is b with some elements left out, the order kept
RECURSIVE is_sublist(_, _)
is_sublist(a, b) ==
  IF Len(a) = 0 THEN TRUE
  ELSE IF Len(b) = 0 THEN FALSE
  ELSE IF Head(a) = Head(b) THEN is_sublist(Tail(a), Tail(b))
  ELSE is_sublist(a, Tail(b))

REFINEMENTS == {"PerfectPalinception", "UniformPalinception", "PaliblockPalindrome"}

\* C23: the chunk lists of PerfectPalinception, UniformPalinception and
\* PaliblockPalindrome are order-preserving sub-lists of the Palindrome
\* chunk list, every chunk is the unit interval (p, p + 1) of an enumerated
\* palindrome p, and PaliblockPalindrome is the Palindrome list when the
\* decimal form of the block height is a palindrome and absent otherwise
C23_RefinementsAreSubLists ==
  evaluated("Palindrome") =>
    /\ chunks_of(block_rarities, "Palindrome") = unit_chunks(matches)
    /\ \A kind \in REFINEMENTS :
         is_sublist(chunks_of(block_rarities, kind), chunks_of(block_rarities, "Palindrome"))
    /\ chunks_of(block_rarities, "PaliblockPalindrome")
         = IF is_reversal(Height(q_start))
           THEN chunks_of(block_rarities, "Palindrome")
           ELSE <<>>
    /\ "PaliblockPalindrome" \in kinds_in(block_rarities)
         <=> (is_reversal(Height(q_start)) /\ matches # <<>>)

\* palindromes in a block whose height is none: 131131 lies in block 26
C23_Witness ==
  /\ gbr_pc = "ok"
  /\ ~is_reversal(Height(q_start))
  /\ "Palindrome" \in kinds_in(block_rarities)
  /\ "UniformPalinception" \in kinds_in(block_rarities)
  /\ "PaliblockPalindrome" \notin kinds_in(block_rarities)

\* C24: is_pizza_sat(Sat(n)) holds exactly when some pair (lo, hi) of the
\* whole list PIZZA_RANGES has lo <= n < hi; looking only into the bucket of
\* the block of n hides no interval that contains n
C24_PizzaSatIsListMembership ==
  "is_pizza_sat" \in sat_done =>
    (sat_pizza <=> \E i \in 1..Len(PIZZA_RANGES) :
                     PIZZA_RANGES[i][1] <= sat_n /\ sat_n < PIZZA_RANGES[i][2])

\* the last sat of an interval that ends where its block ends is a pizza
\* sat, and the first sat of the next block is none
C24_Witness ==
  /\ "is_pizza_sat" \in sat_done
  /\ sat_pizza
  /\ Height(sat_n + 1) = Height(sat_n) + 1

\* the chunks an evaluator lists for a kind; none when it lists no such entry
entry_chunks(entries, kind) ==
  IF \E i \in 1..Len(entries) : entries[i][1] = kind
  THEN entries[CHOOSE i \in 1..Len(entries) : entries[i][1] = kind][2]
  ELSE <<>>

\* C26: the point-wise and the range classifier agree on single sats: for
\* every kind k both know, k is among the kinds of Sat(n) exactly when
\* get_block_rarity_chunks(k, n, n + 1) lists chunks for k, and the list is
\* then the single chunk (n, n + 1)
C26_PointAndRangeAgree ==
  {"from", "chunks"} \subseteq sat_done =>
    \A kind \in POINT_KINDS :
      /\ sat_chunks[kind].tag = "ok"
      /\ (\E i \in 1..Len(sat_rarities) : sat_rarities[i] = kind)
           <=> entry_chunks(sat_chunks[kind].val, kind) # <<>>
      /\ entry_chunks(sat_chunks[kind].val, kind) # <<>>
           => entry_chunks(sat_chunks[kind].val, kind) = << <<sat_n, sat_n + 1>> >>

\* a sat of the first transaction that is a palindrome: four kinds at once
C26_Witness ==
  /\ {"from", "chunks"} \subseteq sat_done
  /\ sat_rarities = <<"Vintage", "Nakamoto", "FirstTransaction", "Block9", "Palindrome">>
  /\ entry_chunks(sat_chunks["FirstTransaction"].val, "FirstTransaction")
       = << <<sat_n, sat_n + 1>> >>

\* C25: one call of get_block_rarities runs the palindrome enumerator once,
\* at the kind Palindrome; the turns of the loop at PerfectPalinception,
\* UniformPalinception and PaliblockPalindrome enumerate nothing and add no
\* entry
C25_OneEnumeration ==
  /\ [](gbr_pc \in {"loop", "ok", "panic", "abort"} =>
          pal_calls = IF evaluated("Palindrome") THEN 1 ELSE 0)
  /\ [][(gbr_pc = "loop" /\ kind_idx <= Len(EVALUATION_LIST)
           /\ EVALUATION_LIST[kind_idx] \in REFINEMENTS)
          => (pal_calls' = pal_calls /\ block_rarities' = block_rarities)]_vars

\* a finished call whose one enumeration fed all four entries
C25_Witness ==
  /\ gbr_pc = "ok"
  /\ pal_calls = 1
  /\ {"Palindrome"} \cup REFINEMENTS \subseteq kinds_in(block_rarities)

\* the range ends where the block of its start ends
ends_at_seam == q_start < q_end /\ q_end = (Height(q_start) + 1) * SUBSIDY

\* C27: get_block_rarities returns an error exactly when start >= end or
\* Sat(start) and Sat(end - 1) lie in different blocks; a range whose
\* exclusive end is the first sat of the next block is accepted and is
\* classified under the height of start
C27_ErrorIffBadRange ==
  gbr_pc # "entry" =>
    /\ gbr_pc = "err" <=> (q_start >= q_end \/ Height(q_start) # Height(q_end - 1))
    /\ ends_at_seam =>
         /\ gbr_pc # "err"
         /\ \A kind \in HEIGHT_KINDS :
              evaluated(kind) =>
                (kind \in kinds_in(block_rarities)
                   <=> height_predicate(kind, Height(q_start)))

\* the whole of block 1000 is reported Vintage although its end lies in
\* block 1001, which is not
C27_Witness ==
  /\ gbr_pc = "ok"
  /\ ends_at_seam
  /\ Height(q_start) = VINTAGE_BLOCK_HEIGHT
  /\ "Vintage" \in kinds_in(block_rarities)

\* C28: no report names a kind in two entries: the evaluation list names
\* each kind once, and the kinds an arm emits besides its own (Block9_450,
\* the three made from the palindromes) are emitted by that arm only
C28_KindsAreUnique ==
  \A i, j \in 1..Len(block_rarities) :
    block_rarities[i].block_rarity = block_rarities[j].block_rarity => i = j

\* a report of block 9 with the entries of both arms that emit more than
\* their own kind
C28_Witness ==
  /\ gbr_pc = "ok"
  /\ {"Block9", "Block9_450", "Palindrome", "PaliblockPalindrome"}
       \subseteq kinds_in(block_rarities)
  /\ Len(block_rarities) >= 8

\* C29: a success response holds one result per requested reference, in
\* the order of the request and labelled with the reference as it was sent;
\* the range entries of a result answer the ranges the index lists for the
\* reference one to one and in order, with start and end as listed and
\* block_height the height of the start
C29_SuccessMirrorsRequest ==
  response.kind = "success" =>
    /\ Len(response.utxos) = Len(utxos)
    /\ \A i \in 1..Len(utxos) :
         LET result == response.utxos[i]
             ranges == index_list(utxos[i]).val
         IN  /\ result.utxo = utxos[i]
             /\ Len(result.sat_ranges) = Len(ranges)
             /\ \A j \in 1..Len(ranges) :
                  /\ result.sat_ranges[j].start = ranges[j][1]
                  /\ result.sat_ranges[j].end = ranges[j][2]
                  /\ result.sat_ranges[j].block_height = Height(ranges[j][1])

\* two references answered, the second with two ranges of different blocks
C29_Witness ==
  /\ response.kind = "success"
  /\ utxos = <<"pizza", "coin">>
  /\ Len(response.utxos[2].sat_ranges) = 2
  /\ response.utxos[2].sat_ranges[1].block_height # response.utxos[2].sat_ranges[2].block_height

\* C30: without a sat index every request is answered with the
\* invalid-parameters error "Sat index is not available", before the
\* parameters are parsed and before any reference is resolved: no lookup of
\* a collaborator is made, and the answer is the same whatever the request
\* holds
C30_NoIndexNoWork ==
  (~has_sat_index /\ pc # "entry") =>
    /\ pc = "done"
    /\ response = invalid_params(<<"Sat index is not available">>)
    /\ lookups = 0 /\ lookup_failure = <<>>
    /\ res = <<>> /\ pos = 1

\* a request whose parameters do not parse and whose references would
\* fail, answered for the index
C30_Witness ==
  /\ ~has_sat_index /\ ~params_ok
  /\ utxos = <<"malformed", "list_err">>
  /\ pc = "done"
  /\ response.kind = "error"

=============================================================================
